---------------------------- MODULE Spec2Model ----------------------------
(* Model of the audio receiver of lxc-services:                            *)
(*   audio-receiver/storage.py  AudioFileWriter, AudioStorageManager       *)
(*   audio-receiver/server.py   DeviceConnection, AudioReceiverServer      *)
EXTENDS Integers, Sequences, FiniteSets, TLC

(* ------------------------------ bounds -------------------------------- *)
MaxSegments == 2
MaxWrites == 2
\* config.audio_receiver.segment_duration, scaled down to clock ticks
SegmentDuration == 1
MaxTime == SegmentDuration + 1
\* config.audio_receiver.max_connections, scaled down
MaxConnections == 1
\* sockets the accept loop is offered
MaxAttempts == MaxConnections + 1
\* chunks received by the server, over all devices
MaxChunks == 2
\* calls of DeviceConnection.stop made on a connection object directly
MaxDirectStops == 1

\* device ids (uuid4 strings in the code) and calling threads
Devices == {1, 2}
Threads == {1, 2}
\* chunk payloads: byte sequences of different lengths and contents
Chunks == {<<1>>, <<2, 3>>}

(* -------------------- DeviceInfo defaults (server.py) ------------------ *)
SampleRate == 16000
Channels == 1
BitsPerSample == 16

\* accepted sockets, numbered in accept order; the DeviceConnection made for
\* socket a gets device id a (a fresh uuid4 in the code)
Attempts == 1..MaxAttempts
\* sizes of the data one recv returns
RecvSizes == {2}
\* chunk handlers that can be registered with add_audio_processor
Processors == {1, 2}

(* --------------------------- data directory --------------------------- *)
\* default of the limit parameter of list_segments
ListLimit == 100
\* clock ticks in one calendar day (one date directory)
DayLength == 2
\* numbers of .wav files that earlier runs of the service left in data_dir
ArchiveSizes == {1, ListLimit - 1, ListLimit, ListLimit + 1}

(* ------------------------- compression.py bounds ----------------------- *)
\* samples in one buffer given to the ADPCM encoder
MaxSamples == 3
\* 16-bit samples fed to the ADPCM encoder
PcmSamples == {-8, 0, 3, 8, 15}
\* limits of the ADPCM predictor, code and step
PredictorMin == -32768
PredictorMax == 32767
CodeMin == -8
CodeMax == 7
StepMax == 32768

\* elements in one buffer given to compress_audio
MaxElements == 2
\* compress_audio calls made directly on one compressor
MaxCompressCalls == 1
\* element values of the buffers (258 = 0x0102 tells the byte order)
Elements == {-1, 258}
\* numpy dtypes of the buffers; for tobytes and frombuffer an element is its
\* bit pattern, so float32 behaves as int32 does
Dtypes == {"int16", "int32"}
\* CompressionType, and what else a caller may pass as compression_type
CompressionTypes == {"none", "zlib", "gzip", "adpcm", "dct", "lpc"}
LosslessTypes == {"none", "zlib", "gzip"}
CodecInputs == {"none", "zlib", "gzip", "adpcm", "invalid_type"}
\* quality scores in tenths: a lossless round trip scores 10, a failed
\* quality calculation 5, a lossy round trip one of LossyScores
LosslessScore == 10
FailedScore == 5
LossyScores == {0, 9}
\* target_quality values given to get_optimal_compression, in tenths
\* (AUDIO_QUALITY_THRESHOLD defaults to 0.8)
QualityFloor == 8
Targets == {QualityFloor, LosslessScore + 1}
\* measured durations of a call, in clock ticks
Elapsed == {1}

(* ------------------------- monitoring.py bounds ------------------------ *)
\* MonitoringConfig.alert_cooldown, scaled down to clock ticks
AlertCooldown == 2
\* ticks of the monitoring loop
MaxTicks == 4
\* alerts the monitor creates
MaxAlerts == 2
\* loop threads that start_monitoring creates
MaxLoopThreads == 3
\* bytes of one chunk handed to process_chunk
MaxBytes == 3
\* filters added to the processor
MaxFilters == 2
\* calls of process_chunk
MaxProcessCalls == 1
\* the byte values the chunks are made of
ByteValues == {1, 128}
\* _chunk_to_numpy: the divisor of 16-bit samples, the divisor of 24-bit
\* samples (which is also the sign threshold) and the sign correction
Full16 == 32768
Full24 == 8388608
Wrap24 == 16777216
\* handlers subscribed to the event bus
MaxHandlers == 3
\* events published on the event bus
MaxPublishes == 1
\* MonitoringConfig.history_size (the maxlen of the history deques), scaled down
HistorySize == 1
\* MonitoringConfig defaults: metrics_interval and the thresholds
\* (quality_threshold 0.7 in tenths)
MetricsInterval == 1
CpuThreshold == 80
MemoryThreshold == 85
DiskThreshold == 90
LatencyThreshold == 100
BufferThreshold == 80
QualityThreshold == 7
\* the values of alert_cooldown a monitor is configured with
Cooldowns == {0, AlertCooldown}
\* callbacks that can be registered with add_performance_callback
Callbacks == {1, 2}

VARIABLES storage, lock, pc, now, written, rotated

VARIABLES server, conns, accept, disc, direct_stops

storageVars == <<storage, lock, pc, now, written, rotated>>

serverVars == <<server, conns, accept, disc, direct_stops>>

\* the registry of AudioReceiverServer seen at the level of connections_lock
VARIABLES registry

\* AudioReceiverMonitor (monitoring.py): the monitor object, its loop thread,
\* the wall clock and a clear_resolved_alerts call in progress
VARIABLES monitor, mloop, mclock, clear_call, stop_call

monitorVars == <<monitor, mloop, mclock, clear_call, stop_call>>

\* the data directory of AudioStorageManager as list_segments, delete_segment
\* and cleanup_old_segments see it, and a cleanup_old_segments call in progress
VARIABLES catalog, cleanup

catalogVars == <<catalog, cleanup>>

\* AudioCompressor (compression.py): the compressor object with the call it
\* made last, and one run of the ADPCM encoder and decoder
VARIABLES compressor, adpcm

codecVars == <<compressor, adpcm>>

\* the calls of start_monitoring and stop_monitoring and the loop threads
\* they have started (monitoring.py)
VARIABLES mthreads

\* the AudioProcessor: its filters, its statistics and the result of the
\* last process_chunk (processor.py)
VARIABLES processor

\* the EventBus: its handlers, the deliveries of the publish calls and the
\* retry timers (core/events.py)
VARIABLES bus

\* what the actions of one component leave unchanged
notStorageVars == <<serverVars, registry, monitorVars, catalogVars, codecVars, mthreads,
                    processor, bus>>

notServerVars == <<storageVars, registry, monitorVars, catalogVars, codecVars, mthreads,
                   processor, bus>>

notRegistryVars == <<storageVars, serverVars, monitorVars, catalogVars, codecVars, mthreads,
                     processor, bus>>

notMonitorVars == <<storageVars, serverVars, registry, catalogVars, codecVars, mthreads,
                    processor, bus>>

notCatalogVars == <<storageVars, serverVars, registry, monitorVars, codecVars, mthreads,
                    processor, bus>>

notCodecVars == <<storageVars, serverVars, registry, monitorVars, catalogVars, mthreads,
                  processor, bus>>

notThreadsVars == <<storageVars, serverVars, registry, monitorVars, catalogVars, codecVars,
                    processor, bus>>

notProcessorVars == <<storageVars, serverVars, registry, monitorVars, catalogVars, codecVars,
                      mthreads, bus>>

notBusVars == <<storageVars, serverVars, registry, monitorVars, catalogVars, codecVars,
                mthreads, processor>>

vars == <<storage, lock, pc, now, written, rotated, server, conns, accept, disc,
          direct_stops, registry, monitor, mloop, mclock, clear_call, stop_call,
          catalog, cleanup, compressor, adpcm, mthreads, processor, bus>>

(* ----------------------------- file model ------------------------------ *)
\* A file is a sequence of cells <<tag, value>>: one cell per header field,
\* one cell <<"pcm", b>> per data byte. pos is the offset of the next write.

\* file.write(cells) at offset pos: overwrites what is there, extends the file
FileWrite(content, pos, cells) ==
    SubSeq(content, 1, pos) \o cells
        \o SubSeq(content, pos + Len(cells) + 1, Len(content))

PcmCells(data) == [i \in 1..Len(data) |-> <<"pcm", data[i]>>]

\* width in bytes of a cell (struct.pack formats '<I' = 4, '<H' = 2)
CellWidth(cell) ==
    CASE cell[1] = "pcm" -> 1
      [] cell[1] \in {"pcm_format", "channels", "block_align", "bits_per_sample"} -> 2
      [] OTHER -> 4

RECURSIVE SizeOf(_)
SizeOf(content) ==
    IF content = <<>> THEN 0
    ELSE CellWidth(Head(content)) + SizeOf(Tail(content))

\* AudioFileWriter._write_wav_header: the cells it writes
WavHeader(data_size) ==
    << <<"RIFF", 0>>, <<"riff_size", 36 + data_size>>, <<"WAVE", 0>>,
       <<"fmt ", 0>>, <<"fmt_size", 16>>, <<"pcm_format", 1>>,
       <<"channels", Channels>>, <<"sample_rate", SampleRate>>,
       <<"byte_rate", SampleRate * Channels * (BitsPerSample \div 8)>>,
       <<"block_align", Channels * (BitsPerSample \div 8)>>,
       <<"bits_per_sample", BitsPerSample>>,
       <<"data", 0>>, <<"data_size", data_size>> >>

HeaderLen == Len(WavHeader(0))

\* AudioFileWriter.__init__
NewWriter ==
    [content |-> <<>>, pos |-> 0, handle |-> "none", is_open |-> FALSE,
     bytes_written |-> 0]

\* AudioFileWriter._write_wav_header applied to a writer (no handle: no-op)
WriteWavHeader(w, data_size) ==
    IF w.handle # "open" THEN w
    ELSE [w EXCEPT !.content = FileWrite(w.content, w.pos, WavHeader(data_size)),
                   !.pos = w.pos + HeaderLen]

\* AudioFileWriter.open / _open_wav: open(path, 'wb') truncates, header with
\* placeholder size 0. openOk = FALSE: open() raised, the writer stays closed.
OpenWav(w, openOk) ==
    IF ~openOk THEN w
    ELSE [WriteWavHeader([w EXCEPT !.handle = "open", !.content = <<>>, !.pos = 0], 0)
            EXCEPT !.is_open = TRUE]

\* AudioFileWriter.write_chunk / _write_wav_chunk: result of the call
WriteChunkOk(w) == w.is_open /\ w.handle = "open"

\* mutant of WriteWavChunk: the write offset is not advanced
WriteWavChunkNoAdvance(w, data) ==
    IF ~WriteChunkOk(w) THEN w
    ELSE [w EXCEPT !.content = FileWrite(w.content, w.pos, PcmCells(data)),
                   !.bytes_written = w.bytes_written + Len(data)]

WriteWavChunk(w, data) ==
    IF ~WriteChunkOk(w) THEN w
    ELSE [w EXCEPT !.content = FileWrite(w.content, w.pos, PcmCells(data)),
                   !.pos = w.pos + Len(data),
                   !.bytes_written = w.bytes_written + Len(data)]

\* mutant of CloseWav: the header is rewritten with the placeholder size
CloseWavPlaceholder(w) ==
    IF w.handle = "none" THEN w
    ELSE IF w.handle = "closed" THEN [w EXCEPT !.is_open = FALSE]
    ELSE LET current_pos == w.pos
             h == WriteWavHeader([w EXCEPT !.pos = 0], 0)
         IN [h EXCEPT !.pos = current_pos, !.handle = "closed", !.is_open = FALSE]

\* AudioFileWriter.close / _close_wav: tell, seek(0), header with the bytes
\* written, seek back, close the handle
CloseWav(w) ==
    IF w.handle = "none" THEN w
    ELSE IF w.handle = "closed" THEN [w EXCEPT !.is_open = FALSE]
    ELSE LET current_pos == w.pos
             h == WriteWavHeader([w EXCEPT !.pos = 0], w.bytes_written)
         IN [h EXCEPT !.pos = current_pos, !.handle = "closed", !.is_open = FALSE]

(* --------------------------- AudioStorageManager ----------------------- *)
ActiveCount(S) == Cardinality({d \in Devices : S.active_segments[d] # 0})

\* AudioStorageManager._complete_segment (the caller holds _lock)
CompleteSegment(S, d, t) ==
    IF S.active_segments[d] = 0 THEN S
    ELSE LET s == S.active_segments[d]
             wi == S.segment_writers[d]
             seg == S.segments[s]
             closed == CloseWav(S.writers[wi])
             S1 == [S EXCEPT
                      !.writers[wi] = closed,
                      !.segments[s] = [seg EXCEPT
                          !.end_time = t,
                          !.duration_seconds = t - seg.start_time,
                          !.file_size_bytes = SizeOf(closed.content)],
                      !.stats.segments_completed = @ + 1,
                      !.stats.total_files_stored = @ + 1,
                      !.active_segments[d] = 0,
                      !.segment_writers[d] = 0]
         IN [S1 EXCEPT !.stats.active_segments = ActiveCount(S1)]

\* AudioSegment(...) as created by start_device_segment
NewSegment(d, t) ==
    [device_id |-> d, start_time |-> t, end_time |-> -1,
     duration_seconds |-> 0, file_size_bytes |-> 0, chunks_count |-> 0]

\* mutant of StartSegment: the existing segment is not completed first
StartSegmentNoComplete(S, d, t, openOk) ==
    LET writer == OpenWav(NewWriter, openOk)
        s == Len(S.segments) + 1
        S1 == [S EXCEPT
                 !.segments = Append(@, NewSegment(d, t)),
                 !.writers = Append(@, writer),
                 !.active_segments[d] = s,
                 !.segment_writers[d] = s,
                 !.stats.segments_created = @ + 1]
    IN IF ~writer.is_open THEN S
       ELSE [S1 EXCEPT !.stats.active_segments = ActiveCount(S1)]

\* body of start_device_segment under _lock
StartSegment(S, d, t, openOk) ==
    LET S0 == CompleteSegment(S, d, t)
        writer == OpenWav(NewWriter, openOk)
        s == Len(S0.segments) + 1
        S1 == [S0 EXCEPT
                 !.segments = Append(@, NewSegment(d, t)),
                 !.writers = Append(@, writer),
                 !.active_segments[d] = s,
                 !.segment_writers[d] = s,
                 !.stats.segments_created = @ + 1]
    IN IF ~writer.is_open THEN S0
       ELSE [S1 EXCEPT !.stats.active_segments = ActiveCount(S1)]

\* body of write_audio_chunk under _lock once the device has an active segment
WriteChunk(S, d, data, t) ==
    LET s == S.active_segments[d]
        wi == S.segment_writers[d]
        seg == S.segments[s]
        success == WriteChunkOk(S.writers[wi])
        duration == t - seg.start_time
        S1 == [S EXCEPT
                 !.writers[wi] = WriteWavChunk(@, data),
                 !.segments[s] = [seg EXCEPT
                     !.chunks_count = seg.chunks_count + 1,
                     !.duration_seconds = duration,
                     !.file_size_bytes = seg.file_size_bytes + Len(data)],
                 !.stats.total_bytes_written = @ + Len(data)]
    IN IF ~success THEN S
       ELSE IF duration >= SegmentDuration THEN CompleteSegment(S1, d, t)
       ELSE S1

StorageInit ==
    /\ storage = [active_segments |-> [d \in Devices |-> 0],
                  segment_writers |-> [d \in Devices |-> 0],
                  segments |-> <<>>,
                  writers |-> <<>>,
                  stats |-> [segments_created |-> 0, segments_completed |-> 0,
                             total_bytes_written |-> 0, total_files_stored |-> 0,
                             storage_errors |-> 0, active_segments |-> 0]]
    /\ lock = 0
    /\ pc = [t \in Threads |-> "idle"]
    /\ now = 0
    /\ written = <<>>
    /\ rotated = [d \in Devices |-> FALSE]

\* number of chunks written so far, over all segments
RECURSIVE ChunksWritten(_)
ChunksWritten(w) == IF w = <<>> THEN 0 ELSE Len(Head(w)) + ChunksWritten(Tail(w))

\* start_device_segment(device_id, device_info) called by thread t
StartDeviceSegment(t, d, openOk) ==
    /\ pc[t] = "idle"
    /\ lock = 0
    /\ Len(storage.segments) < MaxSegments
    /\ storage' = StartSegment(storage, d, now, openOk)
    /\ written' = IF openOk THEN Append(written, <<>>) ELSE written
    /\ rotated' = IF openOk THEN [rotated EXCEPT ![d] = FALSE] ELSE rotated
    /\ UNCHANGED <<lock, pc, now>>
    /\ UNCHANGED notStorageVars

\* write_audio_chunk(device_id, chunk) called by thread t. Without an active
\* segment the thread, holding _lock (threading.Lock, not reentrant), calls
\* start_device_segment, whose `with self._lock` waits for the lock the thread
\* itself holds: the call never returns and the lock is never released.
WriteAudioChunk(t, d, data) ==
    /\ pc[t] = "idle"
    /\ lock = 0
    /\ ChunksWritten(written) < MaxWrites
    /\ IF storage.active_segments[d] = 0
       THEN /\ lock' = t
            /\ pc' = [pc EXCEPT ![t] = "start_device_segment"]
            /\ UNCHANGED <<storage, written, rotated>>
       ELSE LET s == storage.active_segments[d]
                ok == WriteChunkOk(storage.writers[storage.segment_writers[d]])
            IN /\ storage' = WriteChunk(storage, d, data, now)
               /\ written' = IF ok THEN [written EXCEPT ![s] = Append(@, data)]
                             ELSE written
               /\ rotated' = [rotated EXCEPT
                                ![d] = ok /\ storage'.active_segments[d] = 0]
               /\ UNCHANGED <<lock, pc>>
    /\ UNCHANGED now
    /\ UNCHANGED notStorageVars

\* complete_device_segment(device_id) called by thread t
CompleteDeviceSegment(t, d) ==
    /\ pc[t] = "idle"
    /\ lock = 0
    /\ storage' = CompleteSegment(storage, d, now)
    /\ UNCHANGED <<lock, pc, now, written, rotated>>
    /\ UNCHANGED notStorageVars

\* wall clock (datetime.now / time.time)
Tick ==
    /\ now < MaxTime
    /\ now' = now + 1
    /\ UNCHANGED <<storage, lock, pc, written, rotated>>
    /\ UNCHANGED notStorageVars

StorageNext ==
    \/ \E t \in Threads, d \in Devices, openOk \in BOOLEAN : StartDeviceSegment(t, d, openOk)
    \/ \E t \in Threads, d \in Devices, data \in Chunks : WriteAudioChunk(t, d, data)
    \/ \E t \in Threads, d \in Devices : CompleteDeviceSegment(t, d)
    \/ Tick

(* ------------------ listing and deleting stored segments --------------- *)
\* A segment id is a uuid4 string: its first eight characters (prefix) and
\* the rest. The file name of a segment holds segment_id[:8] only.
FullId(prefix) == [prefix |-> prefix, rest |-> "tail"]

\* parts[3] of the file name: the id _file_path_to_segment gives a segment
ShortId(prefix) == [prefix |-> prefix, rest |-> ""]

\* the .wav file of segment s of this run: its entry in the date directory
RunFile(S, s) ==
    [segment_id |-> ShortId(<<"run", s>>), start_time |-> S.segments[s].start_time]

\* a .wav file that an earlier run left, started at time t
ArchiveFile(t) ==
    [segment_id |-> ShortId(<<"archive", t>>), start_time |-> t]

\* the .wav files in data_dir: a file exists from open(path, 'wb') in
\* _open_wav until os.remove
DiskFiles(S, C) ==
    {RunFile(S, s) : s \in {x \in 1..Len(S.segments) : x \notin C.removed_run}}
      \cup {ArchiveFile(t) : t \in C.archive}

\* datetime.strptime(date_dir.name, '%Y-%m-%d'): midnight of the file's day
DirDate(file) == (file.start_time \div DayLength) * DayLength

\* sort key of list_segments (start_time; files of the same second in the
\* order of their prefixes)
Later(e, f) ==
    \/ e.start_time > f.start_time
    \/ /\ e.start_time = f.start_time
       /\ e.segment_id.prefix[2] >= f.segment_id.prefix[2]

\* segments.sort(key=start_time, reverse=True): the file at place i is the
\* one with i - 1 files before it (no two files have the same key)
SortNewest(F) ==
    [i \in 1..Cardinality(F) |->
       CHOOSE x \in F : Cardinality({y \in F : y # x /\ Later(y, x)}) = i - 1]

\* the files list_segments returns, as a set: the date filter on the
\* directory (end_date < 0: no filter), then the limit newest of them
ListedFiles(F, end_date, limit) ==
    LET kept == {f \in F : end_date >= 0 => DirDate(f) <= end_date}
    IN {f \in kept : Cardinality({g \in kept : g # f /\ Later(g, f)}) < limit}

\* list_segments(end_date=end_date, limit=limit)
ListSegments(F, end_date, limit) == SortNewest(ListedFiles(F, end_date, limit))

\* delete_segment(segment_id): the target is the listed segment with that id
\* (list_segments() with its default limit); removeOk = FALSE: os.remove
\* raised. Gives the directory state after the call and the call's result.
DeleteSegmentBody(S, C, segment_id, removeOk) ==
    LET found == {f \in ListedFiles(DiskFiles(S, C), -1, ListLimit) :
                    f.segment_id = segment_id}
    IN IF found = {} \/ ~removeOk THEN [catalog |-> C, result |-> FALSE]
       ELSE LET target == CHOOSE f \in found : TRUE
                key == target.segment_id.prefix
            IN [catalog |->
                  IF key[1] = "run"
                  THEN [C EXCEPT !.removed_run = @ \cup {key[2]}]
                  ELSE [C EXCEPT !.archive = @ \ {key[2]}],
                result |-> TRUE]

NewCatalog(archive, undeletable) ==
    [archive |-> archive, undeletable |-> undeletable, removed_run |-> {},
     listed |-> <<>>]

NoCleanup ==
    [pc |-> "idle", cutoff_date |-> -1, old_segments |-> <<>>, idx |-> 0,
     deleted_count |-> 0, result |-> -1, before |-> {}]

\* a fresh data directory
CatalogInit ==
    /\ catalog = NewCatalog({}, {})
    /\ cleanup = NoCleanup

\* list_segments() called by a reader thread: no lock is taken, the call sees
\* the directory as it is
ListSegmentsCall ==
    /\ catalog' = [catalog EXCEPT
                     !.listed = ListSegments(DiskFiles(storage, catalog), -1, ListLimit)]
    /\ UNCHANGED cleanup
    /\ UNCHANGED notCatalogVars

\* delete_segment(segment_id): no lock is taken and neither active_segments
\* nor segment_writers is touched
DeleteSegment(segment_id, removeOk) ==
    /\ cleanup.pc = "idle"
    /\ catalog' = DeleteSegmentBody(storage, catalog, segment_id, removeOk).catalog
    /\ UNCHANGED cleanup
    /\ UNCHANGED notCatalogVars

\* cleanup_old_segments(days_to_keep) with cutoff_date = now - days_to_keep:
\* old_segments = list_segments(end_date=cutoff_date)
CleanupList(cutoff_date) ==
    /\ cleanup.pc = "idle"
    /\ cleanup.result < 0
    /\ cleanup' = [NoCleanup EXCEPT
                     !.pc = "loop", !.cutoff_date = cutoff_date,
                     !.old_segments =
                        ListSegments(DiskFiles(storage, catalog), cutoff_date, ListLimit),
                     !.idx = 1,
                     !.before = DiskFiles(storage, catalog)]
    /\ UNCHANGED catalog
    /\ UNCHANGED notCatalogVars

\* cleanup_old_segments: one round of the for loop, delete_segment on the
\* next listed segment
CleanupDelete ==
    /\ cleanup.pc = "loop"
    /\ cleanup.idx <= Len(cleanup.old_segments)
    /\ LET segment == cleanup.old_segments[cleanup.idx]
           removeOk == segment.segment_id.prefix[2] \notin catalog.undeletable
           r == DeleteSegmentBody(storage, catalog, segment.segment_id, removeOk)
       IN /\ catalog' = r.catalog
          /\ cleanup' = [cleanup EXCEPT
                           !.idx = @ + 1,
                           !.deleted_count = IF r.result THEN @ + 1 ELSE @]
    /\ UNCHANGED notCatalogVars

\* cleanup_old_segments: the loop is over, deleted_count is returned
CleanupReturn ==
    /\ cleanup.pc = "loop"
    /\ cleanup.idx > Len(cleanup.old_segments)
    /\ cleanup' = [cleanup EXCEPT !.pc = "idle", !.result = cleanup.deleted_count]
    /\ UNCHANGED catalog
    /\ UNCHANGED notCatalogVars

(* ------------------------- compression.py: ADPCM ----------------------- *)
Abs(n) == IF n < 0 THEN -n ELSE n

Max2(a, b) == IF a > b THEN a ELSE b

Min2(a, b) == IF a < b THEN a ELSE b

\* int(a / b) for b > 0: the quotient truncated towards zero
TruncDiv(a, b) == IF a >= 0 THEN a \div b ELSE -((-a) \div b)

\* code & 0x0F: the low four bits of the two's complement of code
Nibble(code) == code % 16

\* the decoder's reading of a nibble: if code >= 8: code -= 16
SignedNibble(nibble) == IF nibble >= 8 THEN nibble - 16 ELSE nibble

\* _compress_adpcm: one round of the loop over the samples; e is the encoder
\* state [predictor, step, encoded]
AdpcmEncodeStep(e, sample) ==
    LET diff == sample - e.predictor
        code == Max2(CodeMin, Min2(CodeMax, TruncDiv(diff, e.step)))
        predictor == Max2(PredictorMin, Min2(PredictorMax, e.predictor + code * e.step))
        step == IF Abs(diff) > e.step * 2 THEN Min2(e.step * 2, StepMax)
                ELSE IF 2 * Abs(diff) < e.step THEN Max2(e.step \div 2, 1)
                ELSE e.step
    IN [predictor |-> predictor, step |-> step,
        encoded |-> Append(e.encoded, Nibble(code))]

\* _compress_adpcm: two 4-bit codes per byte, the last byte padded with zero
RECURSIVE PackNibbles(_)
PackNibbles(encoded) ==
    IF encoded = <<>> THEN <<>>
    ELSE IF Len(encoded) = 1 THEN <<encoded[1] * 16>>
    ELSE <<encoded[1] * 16 + encoded[2]>> \o PackNibbles(SubSeq(encoded, 3, Len(encoded)))

\* _decompress_adpcm: the 4-bit codes of the bytes
RECURSIVE UnpackNibbles(_)
UnpackNibbles(bytes) ==
    IF bytes = <<>> THEN <<>>
    ELSE <<(bytes[1] \div 16) % 16, bytes[1] % 16>> \o UnpackNibbles(Tail(bytes))

\* _decompress_adpcm: one round of the loop over the codes; d is the decoder
\* state [predictor, step, decoded]
AdpcmDecodeStep(d, nibble) ==
    LET code == SignedNibble(nibble)
        sample == Max2(PredictorMin, Min2(PredictorMax, d.predictor + code * d.step))
        step == IF Abs(code) > 2 THEN Min2(d.step * 2, StepMax)
                ELSE IF Abs(code) = 0 THEN Max2(d.step \div 2, 1)
                ELSE d.step
    IN [predictor |-> sample, step |-> step, decoded |-> Append(d.decoded, sample)]

\* a run of the encoder over samples followed by the decoder over its output,
\* both starting from predictor 0 and step 1; enc_trace and dec_trace record
\* the predictor and the step after each sample
NewAdpcm(samples) ==
    [samples |-> samples, phase |-> "encode",
     enc |-> [predictor |-> 0, step |-> 1, encoded |-> <<>>],
     packed |-> <<>>,
     dec |-> [predictor |-> 0, step |-> 1, decoded |-> <<>>],
     enc_trace |-> <<>>, dec_trace |-> <<>>]

\* the buffers the encoder is run on
PcmBuffers == UNION {[1..n -> PcmSamples] : n \in 0..MaxSamples}

AdpcmInit == \E samples \in PcmBuffers : adpcm = NewAdpcm(samples)

AdpcmEncodeSample ==
    /\ adpcm.phase = "encode"
    /\ Len(adpcm.enc.encoded) < Len(adpcm.samples)
    /\ LET e == AdpcmEncodeStep(adpcm.enc, adpcm.samples[Len(adpcm.enc.encoded) + 1])
       IN adpcm' = [adpcm EXCEPT
                      !.enc = e,
                      !.enc_trace = Append(@, <<e.predictor, e.step>>)]
    /\ UNCHANGED compressor
    /\ UNCHANGED notCodecVars

AdpcmPack ==
    /\ adpcm.phase = "encode"
    /\ Len(adpcm.enc.encoded) = Len(adpcm.samples)
    /\ adpcm' = [adpcm EXCEPT !.packed = PackNibbles(adpcm.enc.encoded),
                               !.phase = "decode"]
    /\ UNCHANGED compressor
    /\ UNCHANGED notCodecVars

\* the decoder reads the first prod(original_shape) codes
AdpcmDecodeSample ==
    /\ adpcm.phase = "decode"
    /\ Len(adpcm.dec.decoded) < Len(adpcm.samples)
    /\ LET d == AdpcmDecodeStep(adpcm.dec,
                   UnpackNibbles(adpcm.packed)[Len(adpcm.dec.decoded) + 1])
       IN adpcm' = [adpcm EXCEPT
                      !.dec = d,
                      !.dec_trace = Append(@, <<d.predictor, d.step>>)]
    /\ UNCHANGED compressor
    /\ UNCHANGED notCodecVars

AdpcmNext == AdpcmEncodeSample \/ AdpcmPack \/ AdpcmDecodeSample

(* --------------------- compression.py: AudioCompressor ----------------- *)
ItemSize(dtype) == IF dtype = "int16" THEN 2 ELSE 4

\* 2 to the power n
RECURSIVE Pow2(_)
Pow2(n) == IF n = 0 THEN 1 ELSE 2 * Pow2(n - 1)

\* the integer of bits bits that has the bit pattern of v (astype, and the
\* wrap-around of numpy integer arithmetic)
Wrap(v, bits) ==
    LET u == v % Pow2(bits)
    IN IF u >= Pow2(bits - 1) THEN u - Pow2(bits) ELSE u

\* the little-endian two's complement bytes of one element (\div rounds
\* down, so a negative v gives the bytes of its two's complement)
ElementBytes(v, size) ==
    [i \in 1..size |-> (v \div Pow2(8 * (i - 1))) % 256]

\* ndarray.tobytes()
RECURSIVE ToBytes(_, _)
ToBytes(values, dtype) ==
    IF values = <<>> THEN <<>>
    ELSE ElementBytes(Head(values), ItemSize(dtype)) \o ToBytes(Tail(values), dtype)

\* the signed element whose little-endian two's complement bytes are bytes
RECURSIVE BytesElement(_)
BytesElement(bytes) ==
    IF Len(bytes) = 1 THEN Wrap(Head(bytes), 8)
    ELSE Head(bytes) + 256 * BytesElement(Tail(bytes))

\* np.frombuffer(bytes, dtype=dtype) for a buffer of whole elements
RECURSIVE FromBuffer(_, _)
FromBuffer(bytes, dtype) ==
    IF bytes = <<>> THEN <<>>
    ELSE LET size == ItemSize(dtype)
         IN <<BytesElement(SubSeq(bytes, 1, size))>>
              \o FromBuffer(SubSeq(bytes, size + 1, Len(bytes)), dtype)

\* number of elements of a shape
RECURSIVE Prod(_)
Prod(shape) == IF shape = <<>> THEN 1 ELSE Head(shape) * Prod(Tail(shape))

\* an ndarray: dtype, shape and the elements in C order
Array(dtype, shape, values) == [dtype |-> dtype, shape |-> shape, values |-> values]

\* the result of a call that raised
Raised == [raised |-> TRUE]

Returned(value) == [raised |-> FALSE, value |-> value]

\* np.frombuffer(data, dtype=dtype).reshape(original_shape): raises when the
\* buffer is not a whole number of elements or has another number of
\* elements than the shape
FromBufferReshape(bytes, shape, dtype) ==
    IF Len(bytes) % ItemSize(dtype) # 0 \/ Len(bytes) \div ItemSize(dtype) # Prod(shape)
    THEN Raised
    ELSE Returned(Array(dtype, shape, FromBuffer(bytes, dtype)))

\* zlib and gzip are library code: a run-length coding with a format header
\* stands for the deflate stream
RECURSIVE RunLength(_)
RunLength(bytes) ==
    IF bytes = <<>> THEN <<>>
    ELSE LET b == Head(bytes)
             rest == RunLength(Tail(bytes))
         IN IF rest # <<>> /\ rest[2] = b
            THEN <<rest[1] + 1, b>> \o SubSeq(rest, 3, Len(rest))
            ELSE <<1, b>> \o rest

RECURSIVE Repeat(_, _)
Repeat(b, n) == IF n = 0 THEN <<>> ELSE <<b>> \o Repeat(b, n - 1)

RECURSIVE RunExpand(_)
RunExpand(runs) ==
    IF runs = <<>> THEN <<>>
    ELSE Repeat(runs[2], runs[1]) \o RunExpand(SubSeq(runs, 3, Len(runs)))

\* the first bytes of a zlib stream (0x78 0x9c) and of a gzip member (0x1f 0x8b)
ZlibHeader == <<120, 156>>

GzipHeader == <<31, 139, 8>>

\* zlib.compress(data, level) / gzip.compress(data, compresslevel)
Deflate(header, bytes) == header \o RunLength(bytes)

\* zlib.decompress / gzip.decompress: raises on data of another format
Inflate(header, data) ==
    IF Len(data) < Len(header) \/ SubSeq(data, 1, Len(header)) # header
    THEN Raised
    ELSE Returned(RunExpand(SubSeq(data, Len(header) + 1, Len(data))))

\* _compress_adpcm: the conversion (audio_data * 32767).astype(int16) of a
\* buffer that is not int16; the product wraps to the width of the dtype and
\* then to 16 bits, which is the product wrapped to 16 bits
AdpcmInput(x) ==
    IF x.dtype = "int16" THEN x.values
    ELSE [i \in 1..Len(x.values) |-> Wrap(x.values[i] * PredictorMax, 16)]

RECURSIVE AdpcmEncodeAll(_, _)
AdpcmEncodeAll(e, samples) ==
    IF samples = <<>> THEN e
    ELSE AdpcmEncodeAll(AdpcmEncodeStep(e, Head(samples)), Tail(samples))

RECURSIVE AdpcmDecodeAll(_, _)
AdpcmDecodeAll(d, nibbles) ==
    IF nibbles = <<>> THEN d
    ELSE AdpcmDecodeAll(AdpcmDecodeStep(d, Head(nibbles)), Tail(nibbles))

\* _compress_adpcm
CompressAdpcm(x) ==
    PackNibbles(AdpcmEncodeAll(NewAdpcm(<<>>).enc, AdpcmInput(x)).encoded)

\* _decompress_adpcm: the first prod(original_shape) codes are decoded into
\* an int16 array, which the reshape accepts only with that many elements
DecompressAdpcm(data, shape) ==
    LET nibbles == UnpackNibbles(data)
        used == SubSeq(nibbles, 1, Min2(Len(nibbles), Prod(shape)))
    IN IF Len(used) # Prod(shape) THEN Raised
       ELSE Returned(Array("int16", shape,
                           AdpcmDecodeAll(NewAdpcm(<<>>).dec, used).decoded))

\* as CompressDispatch, with data of an unsupported type passed through
CompressDispatchPassThrough(x, compression_type, levelOk) ==
    CASE compression_type = "none" -> Returned(ToBytes(x.values, x.dtype))
      [] compression_type = "zlib" ->
           IF levelOk THEN Returned(Deflate(ZlibHeader, ToBytes(x.values, x.dtype)))
           ELSE Raised
      [] compression_type = "gzip" ->
           IF levelOk THEN Returned(Deflate(GzipHeader, ToBytes(x.values, x.dtype)))
           ELSE Raised
      [] compression_type = "adpcm" -> Returned(CompressAdpcm(x))
      [] OTHER -> Returned(ToBytes(x.values, x.dtype))

\* compress_audio: the if/elif chain over compression_type; levelOk = FALSE:
\* compression_level is not a level zlib accepts. DCT and LPC (floating-point
\* transforms) are not called in this model.
CompressDispatch(x, compression_type, levelOk) ==
    CASE compression_type = "none" -> Returned(ToBytes(x.values, x.dtype))
      [] compression_type = "zlib" ->
           IF levelOk THEN Returned(Deflate(ZlibHeader, ToBytes(x.values, x.dtype)))
           ELSE Raised
      [] compression_type = "gzip" ->
           IF levelOk THEN Returned(Deflate(GzipHeader, ToBytes(x.values, x.dtype)))
           ELSE Raised
      [] compression_type = "adpcm" -> Returned(CompressAdpcm(x))
      [] OTHER -> Raised

\* as InflateArray, reading the buffer with the default dtype of
\* decompress_audio whatever dtype was passed
InflateArrayDefaultDtype(header, data, shape, dtype) ==
    LET r == Inflate(header, data)
    IN IF r.raised THEN Raised ELSE FromBufferReshape(r.value, shape, "int32")

\* _decompress_zlib / _decompress_gzip
InflateArray(header, data, shape, dtype) ==
    LET r == Inflate(header, data)
    IN IF r.raised THEN Raised ELSE FromBufferReshape(r.value, shape, dtype)

\* decompress_audio: the if/elif chain over compression_type
DecompressDispatch(data, compression_type, shape, dtype) ==
    CASE compression_type = "none" -> FromBufferReshape(data, shape, dtype)
      [] compression_type = "zlib" -> InflateArray(ZlibHeader, data, shape, dtype)
      [] compression_type = "gzip" -> InflateArray(GzipHeader, data, shape, dtype)
      [] compression_type = "adpcm" -> DecompressAdpcm(data, shape)
      [] OTHER -> Raised

\* decompress_audio applied to the history H: a call that does not raise
\* writes its duration into the last record of the history
DecompressAudioBody(H, data, compression_type, shape, dtype, elapsed) ==
    LET r == DecompressDispatch(data, compression_type, shape, dtype)
    IN [history |-> IF r.raised \/ H = <<>> THEN H
                    ELSE [H EXCEPT ![Len(H)].decompression_time = elapsed],
        result |-> r]

\* _calculate_quality_score, given the result of its decompress_audio call:
\* no noise scores 1.0, an exception 0.5, a lossy round trip lossy
QualityScore(x, r, lossy) ==
    IF r.raised THEN FailedScore
    ELSE IF r.value.values = x.values THEN LosslessScore
    ELSE lossy

\* compress_audio(audio_data, compression_type) applied to the history H;
\* compression_ratio is kept as the pair <<original_size, compressed_size>>
\* (<<1, 1>> for an empty output)
CompressAudioBody(H, x, compression_type, levelOk, lossy, elapsed) ==
    LET c == CompressDispatch(x, compression_type, levelOk)
    IN IF c.raised THEN [history |-> H, result |-> Raised]
       ELSE LET original_size == Len(x.values) * ItemSize(x.dtype)
                compressed_size == Len(c.value)
                q == DecompressAudioBody(H, c.value, compression_type,
                                         x.shape, x.dtype, elapsed)
                metrics == [original_size |-> original_size,
                            compressed_size |-> compressed_size,
                            compression_ratio |->
                               IF compressed_size > 0
                               THEN <<original_size, compressed_size>> ELSE <<1, 1>>,
                            compression_time |-> elapsed,
                            decompression_time |-> 0,
                            quality_score |-> QualityScore(x, q.result, lossy)]
            IN [history |-> Append(q.history, metrics),
                result |-> Returned([data |-> c.value, metrics |-> metrics])]

\* as RatioGreater, with the comparison turned round
RatioSmaller(a, b) == a[1] * b[2] < b[1] * a[2]

\* a > b for ratios kept as pairs <<numerator, denominator>>
RatioGreater(a, b) == a[1] * b[2] > b[1] * a[2]

Candidates == <<"zlib", "gzip", "adpcm">>

\* get_optimal_compression: the loop over the candidates from candidate i
\* on; st is [history, best_compression, best_ratio, trials]; trials records
\* the outcome of each trial compression
RECURSIVE OptimalLoop(_, _, _, _, _, _, _)
OptimalLoop(st, i, x, target_quality, levelOk, lossy, elapsed) ==
    IF i > Len(Candidates) THEN st
    ELSE LET comp_type == Candidates[i]
             r == CompressAudioBody(st.history, x, comp_type, levelOk, lossy, elapsed)
             next ==
               IF r.result.raised
               THEN [st EXCEPT !.trials = Append(@, Raised)]
               ELSE LET metrics == r.result.value.metrics
                        better == /\ metrics.quality_score >= target_quality
                                  /\ RatioGreater(metrics.compression_ratio, st.best_ratio)
                    IN [history |-> r.history,
                        best_compression |-> IF better THEN comp_type
                                             ELSE st.best_compression,
                        best_ratio |-> IF better THEN metrics.compression_ratio
                                       ELSE st.best_ratio,
                        trials |-> Append(st.trials, Returned(metrics))]
         IN OptimalLoop(next, i + 1, x, target_quality, levelOk, lossy, elapsed)

\* the buffers compress_audio is called with
Buffers ==
    {Array(dtype, <<Len(values)>>, values) :
       dtype \in Dtypes,
       values \in UNION {[1..n -> Elements] : n \in 0..MaxElements}}

\* the shapes decompress_audio is called with
Shapes == {<<n>> : n \in 0..MaxElements}

NoCall == [op |-> "none"]

\* AudioCompressor.__init__
NewCompressor(levelOk) ==
    [metrics_history |-> <<>>, level_ok |-> levelOk, last |-> NoCall]

CodecInit ==
    /\ compressor = NewCompressor(TRUE)
    /\ adpcm = NewAdpcm(<<>>)

\* compress_audio(x, compression_type)
CompressAudio(x, compression_type, lossy, elapsed) ==
    /\ Len(compressor.metrics_history) < MaxCompressCalls
    /\ LET r == CompressAudioBody(compressor.metrics_history, x, compression_type,
                                  compressor.level_ok, lossy, elapsed)
       IN compressor' = [compressor EXCEPT
                           !.metrics_history = r.history,
                           !.last = [op |-> "compress", x |-> x,
                                     compression_type |-> compression_type,
                                     result |-> r.result]]
    /\ UNCHANGED adpcm
    /\ UNCHANGED notCodecVars

\* decompress_audio(data, compression_type, original_shape, dtype) on the
\* output of the compress_audio call made last
DecompressAudio(compression_type, shape, dtype, elapsed) ==
    /\ compressor.last.op = "compress"
    /\ ~compressor.last.result.raised
    /\ LET data == compressor.last.result.value.data
           r == DecompressAudioBody(compressor.metrics_history, data,
                                    compression_type, shape, dtype, elapsed)
       IN compressor' = [compressor EXCEPT
                           !.metrics_history = r.history,
                           !.last = [op |-> "decompress",
                                     x |-> compressor.last.x,
                                     compressed_as |-> compressor.last.compression_type,
                                     compression_type |-> compression_type,
                                     shape |-> shape, dtype |-> dtype,
                                     result |-> r.result]]
    /\ UNCHANGED adpcm
    /\ UNCHANGED notCodecVars

\* get_optimal_compression(x, target_quality)
GetOptimalCompression(x, target_quality, lossy, elapsed) ==
    /\ Len(compressor.metrics_history) < MaxCompressCalls
    /\ LET st == OptimalLoop([history |-> compressor.metrics_history,
                              best_compression |-> "zlib",
                              best_ratio |-> <<0, 1>>,
                              trials |-> <<>>],
                             1, x, target_quality, compressor.level_ok, lossy, elapsed)
       IN compressor' = [compressor EXCEPT
                           !.metrics_history = st.history,
                           !.last = [op |-> "optimal", x |-> x,
                                     target_quality |-> target_quality,
                                     trials |-> st.trials,
                                     result |-> Returned(st.best_compression)]]
    /\ UNCHANGED adpcm
    /\ UNCHANGED notCodecVars

CompressorNext ==
    \/ \E x \in Buffers, c \in CodecInputs, lossy \in LossyScores, elapsed \in Elapsed :
         CompressAudio(x, c, lossy, elapsed)
    \/ \E c \in CodecInputs, shape \in Shapes, dtype \in Dtypes, elapsed \in Elapsed :
         DecompressAudio(c, shape, dtype, elapsed)
    \/ \E x \in Buffers, target \in Targets, lossy \in LossyScores, elapsed \in Elapsed :
         GetOptimalCompression(x, target, lossy, elapsed)

(* ------------------------------ server.py ------------------------------ *)

\* a socket not yet accepted
NoConn ==
    [state |-> "none", is_running |-> FALSE, status |-> "disconnected",
     socket |-> "none", thread |-> "none", bytes_received |-> 0,
     chunks_received |-> 0, errors |-> 0, end_cause |-> "none",
     chunk_size |-> 0, loaded |-> 0, processor_calls |-> 0]

\* DeviceConnection.__init__: DeviceInfo.status defaults to DISCONNECTED
NewConn == [NoConn EXCEPT !.state = "created", !.socket = "open"]

\* DeviceConnection.start: the fields it sets and the receive thread it starts
StartConn(c) ==
    [c EXCEPT !.is_running = TRUE, !.status = "connected", !.thread = "loop"]

\* DeviceConnection.stop: the fields it sets; join(timeout=5) does not wait
\* beyond its timeout, so the receive thread is left where it is
StopConn(c) ==
    [c EXCEPT !.is_running = FALSE, !.status = "disconnected", !.socket = "closed"]

\* payload of the device.disconnected event stop() publishes
DisconnectPayload(c) ==
    [bytes_received |-> c.bytes_received, chunks_received |-> c.chunks_received]

\* mutant of LimitReached: the limit is tested with > instead of >=
LimitReachedOffByOne(n) == n > MaxConnections

\* the connection-limit test of _accept_loop
LimitReached(n) == n >= MaxConnections

ServerInit ==
    /\ server = [is_running |-> FALSE, server_socket |-> "none",
                 connections |-> {}, audio_processors |-> <<>>,
                 stats |-> [total_connections |-> 0, active_connections |-> 0,
                            total_bytes_received |-> 0,
                            total_chunks_received |-> 0, total_errors |-> 0]]
    /\ conns = [a \in Attempts |-> NoConn]
    /\ accept = [pc |-> "none", pending |-> 0]
    /\ disc = [a \in Attempts |-> <<>>]
    /\ direct_stops = 0

\* threads that use the registry: the accept thread and the threads that
\* call the server's public methods
RegCallers == {"caller1", "caller2"}

RegThreads == {"accept"} \cup RegCallers

\* the methods of AudioReceiverServer that use self.connections
RegOps == {"get_device_list", "get_device", "disconnect_device",
           "send_command_to_device", "broadcast_command", "stop"}

RegistryInit ==
    registry = [lock |-> "free",
           pc |-> [t \in RegThreads |-> IF t = "accept" THEN "accept" ELSE "idle"],
           op |-> [t \in RegCallers |-> "none"],
           arg |-> [t \in RegCallers |-> 0],
           connections |-> {},
           next_id |-> 1]

(* ---------------------------- monitoring.py ---------------------------- *)
\* the metrics in the order in which _check_alerts evaluates them
Metrics == <<"cpu", "memory", "disk", "latency", "buffer", "quality">>

MetricNames == {Metrics[i] : i \in 1..Len(Metrics)}

Threshold(m) ==
    CASE m = "cpu" -> CpuThreshold
      [] m = "memory" -> MemoryThreshold
      [] m = "disk" -> DiskThreshold
      [] m = "latency" -> LatencyThreshold
      [] m = "buffer" -> BufferThreshold
      [] m = "quality" -> QualityThreshold

\* _check_alerts passes lower_better=True for quality only
LowerBetter(m) == m = "quality"

\* sampled values: around the threshold and around the level boundaries
\* (1.2 and 1.5 times the threshold)
SampleValues(m) ==
    {Threshold(m) - 1, Threshold(m), Threshold(m) + 1,
     (12 * Threshold(m)) \div 10, (12 * Threshold(m)) \div 10 + 1,
     (15 * Threshold(m)) \div 10, (15 * Threshold(m)) \div 10 + 1}

\* _check_metric_alert: should_alert
ShouldAlert(m, value) ==
    IF LowerBetter(m) THEN value < Threshold(m) ELSE value > Threshold(m)

\* mutant of CooldownActive: the time of the last alert is not subtracted
CooldownActiveNoLast(current_time, last_alert_time, cooldown) ==
    current_time < cooldown

\* _check_metric_alert: the cooldown test
CooldownActive(current_time, last_alert_time, cooldown) ==
    current_time - last_alert_time < cooldown

\* mutant of AlertLevelOf: the boundaries are tested with >= instead of >
AlertLevelOfInclusive(m, value) ==
    IF m \in {"cpu", "memory", "disk"}
    THEN IF 10 * value >= 12 * Threshold(m) THEN "critical" ELSE "error"
    ELSE IF m \in {"latency", "buffer"}
    THEN IF 10 * value >= 15 * Threshold(m) THEN "error" ELSE "warning"
    ELSE "warning"

\* _check_metric_alert: the alert level (value > threshold * 1.2, value >
\* threshold * 1.5, in tenths)
AlertLevelOf(m, value) ==
    IF m \in {"cpu", "memory", "disk"}
    THEN IF 10 * value > 12 * Threshold(m) THEN "critical" ELSE "error"
    ELSE IF m \in {"latency", "buffer"}
    THEN IF 10 * value > 15 * Threshold(m) THEN "error" ELSE "warning"
    ELSE "warning"

\* PerformanceAlert(...) as created by _check_metric_alert (resolved_timestamp
\* None is -1; the message text is left out)
NewAlert(m, value, current_time) ==
    [level |-> AlertLevelOf(m, value), metric |-> m, threshold |-> Threshold(m),
     timestamp |-> current_time, resolved |-> FALSE, resolved_timestamp |-> -1]

\* the methods class EventBus (core/events.py) defines
EventBusMethods ==
    {"subscribe", "unsubscribe", "publish", "get_stats", "get_event_history",
     "clear_history", "shutdown"}

\* self.event_bus.emit(...): EventBus has no method emit, the call raises
\* AttributeError
EmitRaises == "emit" \notin EventBusMethods

Unresolved(alerts, m) ==
    {i \in 1..Len(alerts) : alerts[i].metric = m /\ ~alerts[i].resolved}

Min(S) == CHOOSE x \in S : \A y \in S : x <= y

\* _resolve_alert: the alerts it has marked resolved when it returns or
\* raises; the emit after the first alert it resolves ends the loop when it
\* raises
ResolvedBy(alerts, m) ==
    IF Unresolved(alerts, m) = {} THEN {}
    ELSE IF EmitRaises THEN {Min(Unresolved(alerts, m))}
    ELSE Unresolved(alerts, m)

ResolveAlerts(alerts, m, current_time) ==
    [i \in 1..Len(alerts) |->
       IF i \in ResolvedBy(alerts, m)
       THEN [alerts[i] EXCEPT !.resolved = TRUE,
                              !.resolved_timestamp = current_time]
       ELSE alerts[i]]

\* length of a deque(maxlen=history_size) of length n after an append
DequeAppend(n) == IF n < HistorySize THEN n + 1 ELSE HistorySize

\* AudioReceiverMonitor.__init__, with the configured cooldown; the three
\* history deques are kept as their lengths
NewMonitor(cooldown) ==
    [alert_cooldown |-> cooldown,
     monitoring_active |-> FALSE,
     alerts |-> <<>>,
     alert_history |-> 0,
     last_alert_times |-> [m \in MetricNames |-> 0],
     performance_callbacks |-> <<>>,
     system_metrics |-> 0,
     audio_metrics |-> 0]

\* no monitoring thread yet
NoLoop == [pc |-> "none", idx |-> 0, phases |-> <<>>, called |-> <<>>]

\* time.time() is far above any cooldown: the clock starts at AlertCooldown
MonitorInit ==
    /\ \E cooldown \in Cooldowns : monitor = NewMonitor(cooldown)
    /\ mloop = NoLoop
    /\ mclock = AlertCooldown
    /\ clear_call = [pc |-> "idle", resolved_count |-> 0]
    /\ stop_call = "idle"

(* ------------------------------ processor.py --------------------------- *)
\* ProcessingStage, in the order process_chunk completes the stages
Stages == <<"input", "filtering", "enhancement", "analysis", "output">>

\* AudioFormat (server.py)
AudioFormats == {"pcm_16bit", "pcm_24bit", "opus", "flac"}

\* the bytes and the chunks handed to process_chunk: data is what one recv
\* returned, so it is not empty and its length is any number of bytes
ByteSeqs == UNION {[1..n -> ByteValues] : n \in 1..MaxBytes}

AudioChunks == [format : AudioFormats, data : ByteSeqs]

\* what the _process of an AudioFilter subclass does with the buffer
FilterKinds == {"identity", "negate", "raises"}

AbsInt(v) == IF v < 0 THEN 0 - v ELSE v

ClipInt(v, lo, hi) == IF v < lo THEN lo ELSE IF v > hi THEN hi ELSE v

\* numpy's << on a uint8 array with a Python int: the result stays uint8, so
\* the bits shifted past bit 7 are dropped
ShiftLeftU8(v, k) == (v * 2^k) % 256

\* numpy's | on two uint8 values
RECURSIVE OrU8(_, _)
OrU8(a, b) ==
    IF a = 0 THEN b
    ELSE IF b = 0 THEN a
    ELSE (IF a % 2 = 1 \/ b % 2 = 1 THEN 1 ELSE 0) + 2 * OrU8(a \div 2, b \div 2)

\* np.frombuffer(dtype=np.int16): the little-endian signed value of 2 bytes
Pcm16Sample(b0, b1) ==
    LET u == b0 + 256 * b1 IN IF u >= Full16 THEN u - 2 * Full16 ELSE u

\* the 24-bit branch of _chunk_to_numpy for one row of the reshaped uint8
\* array: the or of the shifted bytes, widened to int32 afterwards, then
\* the sign correction
Pcm24Sample(b0, b1, b2) ==
    LET u == OrU8(OrU8(b0, ShiftLeftU8(b1, 8)), ShiftLeftU8(b2, 16))
    IN  IF u >= Full24 THEN u - Wrap24 ELSE u

\* _chunk_to_numpy: ok is FALSE where the method returns None (a format it
\* has no branch for, or an exception of frombuffer or reshape on a length
\* that is no whole number of samples); samples are the numerators of the
\* floats over Full16 or Full24
ChunkToNumpy(chunk) ==
    LET n == Len(chunk.data) IN
    IF chunk.format = "pcm_16bit" THEN
        IF n % 2 # 0 THEN [ok |-> FALSE, samples |-> <<>>]
        ELSE [ok |-> TRUE,
              samples |-> [i \in 1..(n \div 2) |->
                              Pcm16Sample(chunk.data[2 * i - 1], chunk.data[2 * i])]]
    ELSE IF chunk.format = "pcm_24bit" THEN
        IF n % 3 # 0 THEN [ok |-> FALSE, samples |-> <<>>]
        ELSE [ok |-> TRUE,
              samples |-> [i \in 1..(n \div 3) |->
                              Pcm24Sample(chunk.data[3 * i - 2], chunk.data[3 * i - 1],
                                          chunk.data[3 * i])]]
    ELSE [ok |-> FALSE, samples |-> <<>>]

\* FilterProcess with a raising filter that hands on a changed buffer
FilterProcessMut(f, samples) ==
    IF ~f.enabled \/ f.kind = "identity" THEN [raised |-> FALSE, samples |-> samples]
    ELSE [raised |-> FALSE, samples |-> [i \in 1..Len(samples) |-> 0 - samples[i]]]

\* AudioFilter.process of one filter: a disabled filter returns its input;
\* raised is TRUE where _process raises
FilterProcess(f, samples) ==
    IF ~f.enabled \/ f.kind = "identity" THEN [raised |-> FALSE, samples |-> samples]
    ELSE IF f.kind = "negate"
         THEN [raised |-> FALSE, samples |-> [i \in 1..Len(samples) |-> 0 - samples[i]]]
         ELSE [raised |-> TRUE, samples |-> samples]

\* _apply_filters: every enabled filter in turn; a filter that raises is
\* logged and leaves filtered_data as it was
RECURSIVE ApplyFilters(_, _)
ApplyFilters(filters, samples) ==
    IF filters = <<>> THEN samples
    ELSE LET f == Head(filters)
             r == IF f.enabled THEN FilterProcess(f, samples)
                  ELSE [raised |-> FALSE, samples |-> samples]
         IN  ApplyFilters(Tail(filters), IF r.raised THEN samples ELSE r.samples)

\* astype of (clipped float * (full - 1)): rounding towards zero
Requantize(v, full) ==
    LET c == ClipInt(v, 0 - full, full)
        q == (AbsInt(c) * (full - 1)) \div full
    IN  IF c < 0 THEN 0 - q ELSE q

\* _numpy_to_chunk: the little-endian bytes of the re-quantized samples
NumpyToChunk(samples, chunk) ==
    IF chunk.format = "pcm_16bit" THEN
        [i \in 1..(2 * Len(samples)) |->
            LET u == Requantize(samples[(i + 1) \div 2], Full16) % (2 * Full16)
            IN  IF i % 2 = 1 THEN u % 256 ELSE u \div 256]
    ELSE IF chunk.format = "pcm_24bit" THEN
        [i \in 1..(3 * Len(samples)) |->
            LET q == Requantize(samples[(i + 2) \div 3], Full24)
                u == IF q < 0 THEN q + Wrap24 ELSE q
            IN  IF i % 3 = 1 THEN u % 256
                ELSE IF i % 3 = 2 THEN (u \div 256) % 256 ELSE u \div 65536]
    ELSE chunk.data

\* the ProcessingResult process_chunk starts with; audio_data and enhanced
\* are the buffers of the same names inside process_chunk
EmptyResult(chunk) ==
    [original_chunk |-> chunk, stages_completed |-> <<>>, has_data |-> FALSE,
     processed_data |-> <<>>, audio_data |-> <<>>, enhanced |-> <<>>, errors |-> <<>>]

\* process_chunk on processor P: the result and the statistics afterwards;
\* publishRaises: event_bus.publish raises (the bus has been shut down)
ProcessChunkBody(P, chunk, publishRaises) ==
    LET audio_data == ChunkToNumpy(chunk) IN
    IF ~audio_data.ok THEN
        [stats |-> P.stats,
         result |-> [EmptyResult(chunk) EXCEPT
                       !.errors = <<"Failed to convert audio chunk to numpy array">>]]
    ELSE
        LET enhanced_data == ApplyFilters(P.filters, audio_data.samples)
            done == [EmptyResult(chunk) EXCEPT
                       !.stages_completed = Stages,
                       !.has_data = TRUE,
                       !.processed_data = NumpyToChunk(enhanced_data, chunk),
                       !.audio_data = audio_data.samples,
                       !.enhanced = enhanced_data]
            counted == [P.stats EXCEPT !.chunks_processed = @ + 1]
        IN  IF publishRaises
            THEN [stats |-> [counted EXCEPT !.errors = @ + 1],
                  result |-> [done EXCEPT !.errors = <<"Processing failed">>]]
            ELSE [stats |-> counted, result |-> done]

\* AudioProcessor.__init__, with no filter loaded yet; calls counts the
\* calls of process_chunk and last is the result of the latest one
ProcessorInit ==
    processor = [filters |-> <<>>,
                 stats |-> [chunks_processed |-> 0, errors |-> 0],
                 calls |-> 0,
                 last |-> EmptyResult([format |-> "pcm_16bit", data |-> <<0, 0>>])]

(* ----------------------------- core/events.py -------------------------- *)
\* EventPriority values a handler is subscribed with (NORMAL, HIGH)
Priorities == {2, 3}

\* max_retries a handler is subscribed with
RetryLimits == {1, 2}

HandlerIds == 1..MaxHandlers

\* EventBus.__init__: no handler; registered counts the subscribe calls;
\* events are the events published so far,
\* each with its retry_count, the handlers publish has called (delivered),
\* the executions and the retries scheduled per handler; timers are the
\* threading.Timer objects that have not fired yet
BusInit ==
    bus = [handlers |-> <<>>, registered |-> 0, events |-> <<>>, timers |-> {}]

\* AudioReceiverMonitor.__init__: monitoring_active = False, monitor_thread =
\* None; no call in progress and no loop thread
ThreadsInit ==
    mthreads = [monitoring_active |-> FALSE, monitor_thread |-> 0,
                threads |-> <<>>, stop_call |-> "idle"]

\* the initial state of the components declared after the compressor
RestInit == ThreadsInit /\ ProcessorInit /\ BusInit

Init ==
    /\ StorageInit /\ ServerInit /\ RegistryInit /\ MonitorInit /\ CatalogInit
    /\ CodecInit /\ RestInit

NextAttempt == Cardinality({a \in Attempts : conns[a].state # "none"}) + 1

\* add_audio_processor(processor), called while the server is being set up;
\* the processors are registered in the order of their numbers
AddAudioProcessor(p) ==
    /\ ~server.is_running
    /\ accept.pc = "none"
    /\ p = Len(server.audio_processors) + 1
    /\ server' = [server EXCEPT !.audio_processors = Append(@, p)]
    /\ UNCHANGED <<conns, accept, disc, direct_stops>>
    /\ UNCHANGED notServerVars

\* AudioReceiverServer.start, called once the processors are registered
ServerStart ==
    /\ ~server.is_running
    /\ accept.pc = "none"
    /\ Len(server.audio_processors) = Cardinality(Processors)
    /\ server' = [server EXCEPT !.is_running = TRUE, !.server_socket = "open"]
    /\ accept' = [accept EXCEPT !.pc = "accept"]
    /\ UNCHANGED <<conns, disc, direct_stops>>
    /\ UNCHANGED notServerVars

\* _accept_loop: accept() returns a socket; the limit is tested on
\* len(self.connections); a refused socket is closed and the loop continues
AcceptConnection ==
    /\ accept.pc = "accept"
    /\ server.is_running
    /\ server.server_socket = "open"
    /\ NextAttempt \in Attempts
    /\ LET a == NextAttempt IN
         IF LimitReached(Cardinality(server.connections))
         THEN /\ conns' = [conns EXCEPT ![a] = [NoConn EXCEPT !.state = "rejected",
                                                          !.socket = "closed"]]
              /\ UNCHANGED <<server, accept, disc, direct_stops>>
         ELSE /\ conns' = [conns EXCEPT ![a] = NewConn]
              /\ accept' = [pc |-> "register", pending |-> a]
              /\ UNCHANGED <<server, disc, direct_stops>>
    /\ UNCHANGED notServerVars

\* _accept_loop: under connections_lock, add the connection and count it
RegisterConnection ==
    /\ accept.pc = "register"
    /\ LET reg == server.connections \cup {accept.pending} IN
         server' = [server EXCEPT !.connections = reg,
                                  !.stats.total_connections = @ + 1,
                                  !.stats.active_connections = Cardinality(reg)]
    /\ accept' = [accept EXCEPT !.pc = "start"]
    /\ UNCHANGED <<conns, disc, direct_stops>>
    /\ UNCHANGED notServerVars

\* DeviceConnection.start when Thread.start() raises (RuntimeError: can't
\* start new thread): the two fields are set, no receive thread exists
StartConnFailed(c) == [c EXCEPT !.is_running = TRUE, !.status = "connected"]

\* _accept_loop: device_connection.start(), then back to the while test.
\* startOk = FALSE: start() raised; the except clause of the loop body logs
\* the error and breaks out of the accept loop.
StartConnection(startOk) ==
    /\ accept.pc = "start"
    /\ conns' = [conns EXCEPT ![accept.pending] =
                   IF startOk THEN StartConn(@) ELSE StartConnFailed(@)]
    /\ accept' = IF startOk THEN [pc |-> "accept", pending |-> 0]
                 ELSE [pc |-> "done", pending |-> 0]
    /\ UNCHANGED <<server, disc, direct_stops>>
    /\ UNCHANGED notServerVars

\* _accept_loop ends: the while test fails, or accept() raises on the closed
\* listening socket
AcceptExit ==
    /\ accept.pc = "accept"
    /\ ~server.is_running \/ server.server_socket = "closed"
    /\ accept' = [accept EXCEPT !.pc = "done"]
    /\ UNCHANGED <<server, conns, disc, direct_stops>>
    /\ UNCHANGED notServerVars

\* _receive_loop: the while test
LoopTest(a) ==
    /\ conns[a].thread = "loop"
    /\ conns' = [conns EXCEPT ![a] =
                   IF @.is_running THEN [@ EXCEPT !.thread = "recv"]
                   ELSE [@ EXCEPT !.thread = "done", !.is_running = FALSE,
                                  !.end_cause = "stopped"]]
    /\ UNCHANGED <<server, accept, disc, direct_stops>>
    /\ UNCHANGED notServerVars

\* chunks received so far by the connections 1..n
RECURSIVE ChunksReceived(_)
ChunksReceived(n) ==
    IF n = 0 THEN 0 ELSE conns[n].chunks_received + ChunksReceived(n - 1)

\* The statistics updates of _process_audio_chunk,
\*     self.stats['total_bytes_received'] += chunk.chunk_size
\*     self.stats['total_chunks_received'] += 1
\* are each a read and a write of a shared dict entry, made by the receive
\* thread of the device without a lock. The thread's steps are cut at the
\* points where another thread can change what it has read: a step ends
\* with the read of an entry and the next step begins with its write.

\* _receive_loop: recv returns n bytes; the device's own counters are updated,
\* the chunk is handed to _process_audio_chunk, which reads total_bytes_received
RecvData(a, n) ==
    /\ conns[a].thread = "recv"
    /\ conns[a].socket = "open"
    /\ ChunksReceived(MaxAttempts) < MaxChunks
    /\ conns' = [conns EXCEPT ![a].bytes_received = @ + n,
                              ![a].chunks_received = @ + 1,
                              ![a].chunk_size = n,
                              ![a].loaded = server.stats.total_bytes_received,
                              ![a].thread = "bytes_store"]
    /\ UNCHANGED <<server, accept, disc, direct_stops>>
    /\ UNCHANGED notServerVars

\* _process_audio_chunk: total_bytes_received is written, total_chunks_received
\* is read
StoreTotalBytes(a) ==
    /\ conns[a].thread = "bytes_store"
    /\ server' = [server EXCEPT !.stats.total_bytes_received =
                                    conns[a].loaded + conns[a].chunk_size]
    /\ conns' = [conns EXCEPT ![a].loaded = server.stats.total_chunks_received,
                              ![a].thread = "chunks_store"]
    /\ UNCHANGED <<accept, disc, direct_stops>>
    /\ UNCHANGED notServerVars

\* _process_audio_chunk: total_chunks_received is written; then every
\* registered processor is called with the chunk (the processors in failing
\* raise, which is caught and logged per processor) and the
\* audio.chunk_received event is published
ProcessChunk(a, failing) ==
    /\ conns[a].thread = "chunks_store"
    /\ failing \subseteq {server.audio_processors[i] :
                             i \in 1..Len(server.audio_processors)}
    /\ server' = [server EXCEPT !.stats.total_chunks_received =
                                    conns[a].loaded + 1]
    /\ conns' = [conns EXCEPT ![a].processor_calls =
                                  @ + Len(server.audio_processors),
                              ![a].chunk_size = 0,
                              ![a].loaded = 0,
                              ![a].thread = "chunk"]
    /\ UNCHANGED <<accept, disc, direct_stops>>
    /\ UNCHANGED notServerVars

\* _receive_loop: after the chunk is processed, the status becomes STREAMING
MarkStreaming(a) ==
    /\ conns[a].thread = "chunk"
    /\ conns' = [conns EXCEPT ![a].status = "streaming", ![a].thread = "loop"]
    /\ UNCHANGED <<server, accept, disc, direct_stops>>
    /\ UNCHANGED notServerVars

\* _receive_loop: break, then self.is_running = False
LoopBreak(c, cause) ==
    [c EXCEPT !.thread = "done", !.is_running = FALSE, !.end_cause = cause,
              !.errors = IF cause = "error" THEN @ + 1 ELSE @]

\* recv returns b'' (the peer closed the connection)
RecvEof(a) ==
    /\ conns[a].thread = "recv"
    /\ conns[a].socket = "open"
    /\ conns' = [conns EXCEPT ![a] = LoopBreak(@, "eof")]
    /\ UNCHANGED <<server, accept, disc, direct_stops>>
    /\ UNCHANGED notServerVars

\* recv raises socket.timeout
RecvTimeout(a) ==
    /\ conns[a].thread = "recv"
    /\ conns' = [conns EXCEPT ![a] = LoopBreak(@, "timeout")]
    /\ UNCHANGED <<server, accept, disc, direct_stops>>
    /\ UNCHANGED notServerVars

\* recv raises any other exception (reset by peer, socket closed by stop)
RecvError(a) ==
    /\ conns[a].thread = "recv"
    /\ conns' = [conns EXCEPT ![a] = LoopBreak(@, "error")]
    /\ UNCHANGED <<server, accept, disc, direct_stops>>
    /\ UNCHANGED notServerVars

\* the connection has been put into the registry (it may have left it since)
Registered(a) ==
    /\ conns[a].state = "created"
    /\ ~(accept.pc = "register" /\ accept.pending = a)

\* DeviceConnection.stop called on the connection object itself, by a caller
\* that took the object from server.connections
ConnStop(a) ==
    /\ Registered(a)
    /\ direct_stops < MaxDirectStops
    /\ direct_stops' = direct_stops + 1
    /\ conns' = [conns EXCEPT ![a] = StopConn(@)]
    /\ disc' = [disc EXCEPT ![a] = Append(@, DisconnectPayload(conns[a]))]
    /\ UNCHANGED <<server, accept>>
    /\ UNCHANGED notServerVars

\* AudioReceiverServer.disconnect_device(d); False when d is not registered
DisconnectDevice(d) ==
    /\ d \in server.connections
    /\ conns' = [conns EXCEPT ![d] = StopConn(@)]
    /\ disc' = [disc EXCEPT ![d] = Append(@, DisconnectPayload(conns[d]))]
    /\ LET reg == server.connections \ {d} IN
         server' = [server EXCEPT !.connections = reg,
                                  !.stats.active_connections = Cardinality(reg)]
    /\ UNCHANGED <<accept, direct_stops>>
    /\ UNCHANGED notServerVars

\* AudioReceiverServer.stop
ServerStop ==
    /\ server.is_running
    /\ conns' = [a \in Attempts |->
                   IF a \in server.connections THEN StopConn(conns[a]) ELSE conns[a]]
    /\ disc' = [a \in Attempts |->
                  IF a \in server.connections
                  THEN Append(disc[a], DisconnectPayload(conns[a])) ELSE disc[a]]
    /\ server' = [server EXCEPT !.is_running = FALSE, !.connections = {},
                                !.server_socket = "closed"]
    /\ UNCHANGED <<accept, direct_stops>>
    /\ UNCHANGED notServerVars

ReceiveStep(a) ==
    \/ LoopTest(a)
    \/ \E n \in RecvSizes : RecvData(a, n)
    \/ StoreTotalBytes(a)
    \/ \E failing \in SUBSET Processors : ProcessChunk(a, failing)
    \/ MarkStreaming(a)
    \/ RecvEof(a)
    \/ RecvTimeout(a)
    \/ RecvError(a)

ServerNext ==
    \/ \E p \in Processors : AddAudioProcessor(p)
    \/ ServerStart
    \/ AcceptConnection
    \/ RegisterConnection
    \/ \E startOk \in BOOLEAN : StartConnection(startOk)
    \/ AcceptExit
    \/ \E a \in Attempts : ReceiveStep(a)
    \/ \E a \in Attempts : ConnStop(a)
    \/ \E d \in Attempts : DisconnectDevice(d)
    \/ ServerStop

(* ------------------- the registry and connections_lock ----------------- *)
\* The bodies of the methods that use self.connections, cut at the
\* boundaries of `with self.connections_lock`: a thread is at "lock" before
\* the with statement, at "access" inside it and holding the lock, and
\* (the accept thread) at "limit_check" before the test of len(self.connections).

\* _accept_loop: accept() returns the next socket
RegAccept ==
    /\ registry.pc["accept"] = "accept"
    /\ registry.next_id \in Attempts
    /\ registry' = [registry EXCEPT !.pc["accept"] = "limit_check"]
    /\ UNCHANGED notRegistryVars

\* _accept_loop: `if len(self.connections) >= max_connections`, evaluated
\* before and outside the with statement; a refused socket is closed
RegLimitCheck ==
    /\ registry.pc["accept"] = "limit_check"
    /\ registry' =
         IF LimitReached(Cardinality(registry.connections))
         THEN [registry EXCEPT !.pc["accept"] = "accept", !.next_id = @ + 1]
         ELSE [registry EXCEPT !.pc["accept"] = "lock"]
    /\ UNCHANGED notRegistryVars

\* a public method of the server is called by thread t
RegCall(t, op, d) ==
    /\ registry.pc[t] = "idle"
    /\ registry' = [registry EXCEPT
                       !.pc[t] = "lock", !.op[t] = op,
                       !.arg[t] = IF op \in {"get_device", "disconnect_device",
                                             "send_command_to_device"}
                                  THEN d ELSE 0]
    /\ UNCHANGED notRegistryVars

\* `with self.connections_lock:` is entered (threading.Lock: one holder)
RegAcquire(t) ==
    /\ registry.pc[t] = "lock"
    /\ registry.lock = "free"
    /\ registry' = [registry EXCEPT !.lock = t, !.pc[t] = "access"]
    /\ UNCHANGED notRegistryVars

\* the registry after the body of the with statement of thread t
RegBody(t) ==
    IF t = "accept" THEN registry.connections \cup {registry.next_id}
    ELSE IF registry.op[t] = "disconnect_device"
         THEN registry.connections \ {registry.arg[t]}
    ELSE IF registry.op[t] = "stop" THEN {}
    ELSE registry.connections

\* the body of the with statement, and the lock is released on leaving it
RegAccess(t) ==
    /\ registry.pc[t] = "access"
    /\ registry.lock = t
    /\ registry' = [registry EXCEPT
                      !.connections = RegBody(t),
                      !.lock = "free",
                      !.pc[t] = IF t = "accept" THEN "accept" ELSE "idle",
                      !.op = [c \in RegCallers |-> IF c = t THEN "none" ELSE @[c]],
                      !.arg = [c \in RegCallers |-> IF c = t THEN 0 ELSE @[c]],
                      !.next_id = IF t = "accept" THEN @ + 1 ELSE @]
    /\ UNCHANGED notRegistryVars

RegistryNext ==
    \/ RegAccept
    \/ RegLimitCheck
    \/ \E t \in RegCallers, op \in RegOps, d \in Attempts : RegCall(t, op, d)
    \/ \E t \in RegThreads : RegAcquire(t)
    \/ \E t \in RegThreads : RegAccess(t)

RegistrySpec == Init /\ [][RegistryNext]_vars

(* ------------------------- AudioReceiverMonitor ------------------------ *)
\* add_performance_callback(callback), called before monitoring is started;
\* the callbacks are registered in the order of their numbers
AddPerformanceCallback(c) ==
    /\ mloop.pc = "none"
    /\ c = Len(monitor.performance_callbacks) + 1
    /\ monitor' = [monitor EXCEPT !.performance_callbacks = Append(@, c)]
    /\ UNCHANGED <<mloop, mclock, clear_call, stop_call>>
    /\ UNCHANGED notMonitorVars

\* start_monitoring: the flag is set and the loop thread started; the emit of
\* monitoring.started that follows changes nothing of the monitor. Called
\* once the callbacks are registered, and again only once the earlier loop
\* thread has ended and no stop_monitoring call is waiting.
StartMonitoring ==
    /\ ~monitor.monitoring_active
    /\ mloop.pc \in {"none", "done"}
    /\ stop_call # "joining"
    /\ Len(monitor.performance_callbacks) = Cardinality(Callbacks)
    /\ monitor' = [monitor EXCEPT !.monitoring_active = TRUE]
    /\ mloop' = [NoLoop EXCEPT !.pc = "test"]
    /\ stop_call' = "idle"
    /\ UNCHANGED <<mclock, clear_call>>
    /\ UNCHANGED notMonitorVars

\* stop_monitoring up to the join: the flag is cleared and the caller goes on
\* to monitor_thread.join(timeout=5.0) while the loop thread runs by itself
StopMonitoring ==
    /\ monitor.monitoring_active
    /\ stop_call # "joining"
    /\ monitor' = [monitor EXCEPT !.monitoring_active = FALSE]
    /\ stop_call' = "joining"
    /\ UNCHANGED <<mloop, mclock, clear_call>>
    /\ UNCHANGED notMonitorVars

\* stop_monitoring from the join on: join(timeout=5.0) comes back when the
\* loop thread has ended or when the five seconds are over (timedOut), and
\* the call returns
StopReturn(timedOut) ==
    /\ stop_call = "joining"
    /\ timedOut \/ mloop.pc \in {"none", "done"}
    /\ stop_call' = "returned"
    /\ UNCHANGED <<monitor, mloop, mclock, clear_call>>
    /\ UNCHANGED notMonitorVars

\* _monitoring_loop: the while test
MonitorLoopTest ==
    /\ mloop.pc = "test"
    /\ monitor.monitoring_active => mclock - AlertCooldown < MaxTicks * MetricsInterval
    /\ mloop' = IF monitor.monitoring_active
                THEN [mloop EXCEPT !.pc = "system"]
                ELSE [mloop EXCEPT !.pc = "done"]
    /\ UNCHANGED <<monitor, mclock, clear_call, stop_call>>
    /\ UNCHANGED notMonitorVars

\* _monitoring_loop: _collect_system_metrics and the append to
\* system_metrics; ok = FALSE: a psutil call raised
CollectSystem(ok) ==
    /\ mloop.pc = "system"
    /\ monitor' = IF ok THEN [monitor EXCEPT !.system_metrics = DequeAppend(@)]
                  ELSE monitor
    /\ mloop' = IF ok THEN [mloop EXCEPT !.pc = "audio",
                                         !.phases = Append(@, "system")]
                ELSE [mloop EXCEPT !.pc = "except"]
    /\ UNCHANGED <<mclock, clear_call, stop_call>>
    /\ UNCHANGED notMonitorVars

\* _monitoring_loop: _collect_audio_metrics and the append to audio_metrics
CollectAudio ==
    /\ mloop.pc = "audio"
    /\ monitor' = [monitor EXCEPT !.audio_metrics = DequeAppend(@)]
    /\ mloop' = [mloop EXCEPT !.pc = "check", !.idx = 1,
                              !.phases = Append(@, "audio")]
    /\ UNCHANGED <<mclock, clear_call, stop_call>>
    /\ UNCHANGED notMonitorVars

\* what one call of _check_metric_alert does to the monitor, and whether it
\* raised (the emit after an alert was created or resolved)
CheckMetricAlert(M, m, value, current_time) ==
    IF ~ShouldAlert(m, value)
    THEN [monitor |-> [M EXCEPT !.alerts = ResolveAlerts(@, m, current_time)],
          raised |-> ResolvedBy(M.alerts, m) # {} /\ EmitRaises]
    ELSE IF CooldownActive(current_time, M.last_alert_times[m], M.alert_cooldown)
    THEN [monitor |-> M, raised |-> FALSE]
    ELSE [monitor |-> [M EXCEPT
                         !.alerts = Append(@, NewAlert(m, value, current_time)),
                         !.alert_history = DequeAppend(@),
                         !.last_alert_times[m] = current_time],
          raised |-> EmitRaises]

\* _check_alerts: the call of _check_metric_alert for the metric at idx with
\* the sampled value; an exception leaves _check_alerts for the except
\* clause of the loop
CheckMetric(m, value) ==
    /\ mloop.pc = "check"
    /\ Metrics[mloop.idx] = m
    /\ LET r == CheckMetricAlert(monitor, m, value, mclock) IN
         /\ Len(r.monitor.alerts) <= MaxAlerts
         /\ monitor' = r.monitor
         /\ mloop' = IF r.raised THEN [mloop EXCEPT !.pc = "except"]
                     ELSE IF mloop.idx < Len(Metrics)
                     THEN [mloop EXCEPT !.idx = @ + 1, !.phases = Append(@, m)]
                     ELSE [mloop EXCEPT !.pc = "callbacks",
                                        !.phases = Append(@, m)]
    /\ UNCHANGED <<mclock, clear_call, stop_call>>
    /\ UNCHANGED notMonitorVars

\* _update_performance_callbacks: every registered callback is called with
\* the snapshot; the callbacks in raising raise, which is caught per callback
UpdateCallbacks(raising) ==
    /\ mloop.pc = "callbacks"
    /\ raising \subseteq {monitor.performance_callbacks[i] :
                             i \in 1..Len(monitor.performance_callbacks)}
    /\ mloop' = [mloop EXCEPT !.pc = "sleep",
                              !.called = monitor.performance_callbacks,
                              !.phases = Append(@, "callbacks")]
    /\ UNCHANGED <<monitor, mclock, clear_call, stop_call>>
    /\ UNCHANGED notMonitorVars

\* as MonitorSleep, with a loop that ends on the exception of a tick
MonitorSleepDies ==
    /\ mloop.pc \in {"sleep", "except"}
    /\ mclock' = mclock + MetricsInterval
    /\ mloop' = [NoLoop EXCEPT !.pc = IF mloop.pc = "except" THEN "done" ELSE "test"]
    /\ UNCHANGED <<monitor, clear_call, stop_call>>
    /\ UNCHANGED notMonitorVars

\* _monitoring_loop: time.sleep(metrics_interval), at the end of the try block
\* or in the except clause
MonitorSleep ==
    /\ mloop.pc \in {"sleep", "except"}
    /\ mclock' = mclock + MetricsInterval
    /\ mloop' = [NoLoop EXCEPT !.pc = "test"]
    /\ UNCHANGED <<monitor, clear_call, stop_call>>
    /\ UNCHANGED notMonitorVars

\* resolve_alert(alert_id) for an alert that is not resolved (alert_id = i - 1)
ResolveAlert(i) ==
    /\ i \in 1..Len(monitor.alerts)
    /\ ~monitor.alerts[i].resolved
    /\ monitor' = [monitor EXCEPT !.alerts[i].resolved = TRUE,
                                  !.alerts[i].resolved_timestamp = mclock]
    /\ UNCHANGED <<mloop, mclock, clear_call, stop_call>>
    /\ UNCHANGED notMonitorVars

Resolved(alert) == alert.resolved

NotResolved(alert) == ~alert.resolved

\* clear_resolved_alerts, first statement: resolved_count = len([...])
ClearCount ==
    /\ clear_call.pc = "idle"
    /\ clear_call' = [pc |-> "filter",
                      resolved_count |-> Len(SelectSeq(monitor.alerts, Resolved))]
    /\ UNCHANGED <<monitor, mloop, mclock, stop_call>>
    /\ UNCHANGED notMonitorVars

\* clear_resolved_alerts, second statement: self.alerts = [...]; the call
\* returns resolved_count
ClearFilter ==
    /\ clear_call.pc = "filter"
    /\ monitor' = [monitor EXCEPT !.alerts = SelectSeq(@, NotResolved)]
    /\ clear_call' = [pc |-> "idle", resolved_count |-> 0]
    /\ UNCHANGED <<mloop, mclock, stop_call>>
    /\ UNCHANGED notMonitorVars

\* reset_metrics: counters, gauges, timers and the two metric histories are
\* cleared
ResetMetrics ==
    /\ monitor' = [monitor EXCEPT !.system_metrics = 0, !.audio_metrics = 0]
    /\ UNCHANGED <<mloop, mclock, clear_call, stop_call>>
    /\ UNCHANGED notMonitorVars

\* the monitor and its loop thread
MonitorNext ==
    \/ \E c \in Callbacks : AddPerformanceCallback(c)
    \/ StartMonitoring
    \/ StopMonitoring
    \/ \E timedOut \in BOOLEAN : StopReturn(timedOut)
    \/ MonitorLoopTest
    \/ \E ok \in BOOLEAN : CollectSystem(ok)
    \/ CollectAudio
    \/ \E m \in MetricNames : \E value \in SampleValues(m) : CheckMetric(m, value)
    \/ \E raising \in SUBSET Callbacks : UpdateCallbacks(raising)
    \/ MonitorSleep

MonitorSpec == Init /\ [][MonitorNext]_vars

\* the value sequence below, above, above, below relative to the threshold
FedValues(m) ==
    <<Threshold(m) - 1, Threshold(m) + 1, Threshold(m) + 1, Threshold(m) - 1>>

\* number of the tick in progress (the first tick is 1)
TickNumber == (mclock - AlertCooldown) \div MetricsInterval + 1

\* The monitor with every sampling succeeding and the cpu metric fed the
\* sequence FedValues, one value per tick; the other metrics take any value.
FedCheckMetric(m, value) ==
    /\ m = "cpu" => /\ TickNumber <= Len(FedValues(m))
                    /\ value = FedValues(m)[TickNumber]
    /\ CheckMetric(m, value)

FedNext ==
    \/ \E c \in Callbacks : AddPerformanceCallback(c)
    \/ StartMonitoring
    \/ StopMonitoring
    \/ \E timedOut \in BOOLEAN : StopReturn(timedOut)
    \/ MonitorLoopTest
    \/ CollectSystem(TRUE)
    \/ CollectAudio
    \/ \E m \in MetricNames : \E value \in SampleValues(m) : FedCheckMetric(m, value)
    \/ \E raising \in SUBSET Callbacks : UpdateCallbacks(raising)
    \/ MonitorSleep

FedSpec == Init /\ [][FedNext]_vars

\* the fed monitor together with the calls that work on the alert list
AlertNext ==
    \/ FedNext
    \/ \E i \in 1..MaxAlerts : ResolveAlert(i)
    \/ ClearCount
    \/ ClearFilter
    \/ ResetMetrics

AlertSpec == Init /\ [][AlertNext]_vars

(* ------------- start_monitoring, stop_monitoring and the threads -------- *)
\* The two calls and every loop thread they have started, with a tick of the
\* loop (the body of the try statement) taken as one step. A loop thread is
\* at "test" (before the while test), "tick", "sleep" or "done".

\* the threads that are inside the loop: the while test found
\* monitoring_active set and the thread has not come back to the test
Looping(T) == {i \in 1..Len(T.threads) : T.threads[i] \in {"tick", "sleep"}}

\* start_monitoring: returns at once while monitoring_active is set;
\* otherwise sets the flag, creates a thread and starts it
ThreadsStartMonitoring ==
    /\ mthreads.stop_call # "joining"
    /\ ~mthreads.monitoring_active => Len(mthreads.threads) < MaxLoopThreads
    /\ mthreads' =
         IF mthreads.monitoring_active THEN [mthreads EXCEPT !.stop_call = "idle"]
         ELSE [mthreads EXCEPT !.monitoring_active = TRUE,
                               !.threads = Append(@, "test"),
                               !.monitor_thread = Len(mthreads.threads) + 1,
                               !.stop_call = "idle"]
    /\ UNCHANGED notThreadsVars

\* stop_monitoring up to the join: returns at once while monitoring_active
\* is clear; otherwise clears the flag and joins monitor_thread
ThreadsStopMonitoring ==
    /\ mthreads.stop_call # "joining"
    /\ mthreads.monitoring_active
    /\ mthreads' = [mthreads EXCEPT !.monitoring_active = FALSE,
                                    !.stop_call = "joining"]
    /\ UNCHANGED notThreadsVars

\* stop_monitoring: monitor_thread.join(timeout=5.0) comes back when the
\* thread has ended or when the five seconds are over (timedOut)
ThreadsStopReturn(timedOut) ==
    /\ mthreads.stop_call = "joining"
    /\ timedOut \/ mthreads.threads[mthreads.monitor_thread] = "done"
    /\ mthreads' = [mthreads EXCEPT !.stop_call = "returned"]
    /\ UNCHANGED notThreadsVars

\* _monitoring_loop of thread i: the while test
LoopThreadTest(i) ==
    /\ i <= Len(mthreads.threads)
    /\ mthreads.threads[i] = "test"
    /\ mthreads' = [mthreads EXCEPT !.threads[i] =
                       IF mthreads.monitoring_active THEN "tick" ELSE "done"]
    /\ UNCHANGED notThreadsVars

\* _monitoring_loop of thread i: the body of the try statement up to the
\* sleep, or up to the sleep of the except clause
LoopThreadTick(i) ==
    /\ i <= Len(mthreads.threads)
    /\ mthreads.threads[i] = "tick"
    /\ mthreads' = [mthreads EXCEPT !.threads[i] = "sleep"]
    /\ UNCHANGED notThreadsVars

\* _monitoring_loop of thread i: time.sleep(metrics_interval) returns
LoopThreadSleep(i) ==
    /\ i <= Len(mthreads.threads)
    /\ mthreads.threads[i] = "sleep"
    /\ mthreads' = [mthreads EXCEPT !.threads[i] = "test"]
    /\ UNCHANGED notThreadsVars

ThreadsNext ==
    \/ ThreadsStartMonitoring
    \/ ThreadsStopMonitoring
    \/ \E timedOut \in BOOLEAN : ThreadsStopReturn(timedOut)
    \/ \E i \in 1..MaxLoopThreads : LoopThreadTest(i)
    \/ \E i \in 1..MaxLoopThreads : LoopThreadTick(i)
    \/ \E i \in 1..MaxLoopThreads : LoopThreadSleep(i)

ThreadsSpec == Init /\ [][ThreadsNext]_vars

\* add_filter(audio_filter); AudioFilter.__init__ leaves the filter enabled
AddFilter(kind) ==
    /\ Len(processor.filters) < MaxFilters
    /\ processor' = [processor EXCEPT
                       !.filters = Append(@, [kind |-> kind, enabled |-> TRUE])]
    /\ UNCHANGED notProcessorVars

\* process_chunk(chunk)
ProcessChunkCall(chunk, publishRaises) ==
    /\ processor.calls < MaxProcessCalls
    /\ LET r == ProcessChunkBody(processor, chunk, publishRaises)
       IN  processor' = [processor EXCEPT !.stats = r.stats,
                                          !.last = r.result,
                                          !.calls = @ + 1]
    /\ UNCHANGED notProcessorVars

\* health_check: the error rate as errors over max(1, chunks_processed),
\* and whether that rate (at most 5%) leaves the processor healthy
HealthCheck(P) ==
    LET den == IF P.stats.chunks_processed < 1 THEN 1 ELSE P.stats.chunks_processed
    IN  [error_rate_num |-> P.stats.errors, error_rate_den |-> den,
         healthy |-> P.stats.errors * 20 <= den]

ProcessorNext ==
    \/ \E kind \in FilterKinds : AddFilter(kind)
    \/ \E chunk \in AudioChunks, publishRaises \in BOOLEAN : ProcessChunkCall(chunk, publishRaises)

ProcessorSpec == Init /\ [][ProcessorNext]_vars

\* list.sort(key=priority, reverse=True): stable, higher priority first
SortByPriority(H) ==
    LET Rank(j) == Cardinality({k \in 1..Len(H) : H[k].priority > H[j].priority})
                   + Cardinality({k \in 1..(j - 1) : H[k].priority = H[j].priority}) + 1
    IN  [i \in 1..Len(H) |-> H[CHOOSE j \in 1..Len(H) : Rank(j) = i]]

\* H without the element at position i (list.remove of that element,
\* del handlers[i])
RemoveAt(H, i) == [j \in 1..(Len(H) - 1) |-> IF j < i THEN H[j] ELSE H[j + 1]]

\* subscribe: handlers are numbered in the order of the subscribe calls;
\* accepts is what filter_func answers (TRUE also for no filter_func);
\* alive says that the target of a weak reference still exists
Subscribe(priority, accepts, max_retries, weak_ref) ==
    /\ bus.registered < MaxHandlers
    /\ LET h == [id |-> bus.registered + 1, priority |-> priority, accepts |-> accepts,
                 max_retries |-> max_retries, weak_ref |-> weak_ref, alive |-> TRUE]
       IN  bus' = [bus EXCEPT !.handlers = SortByPriority(Append(@, h)),
                              !.registered = @ + 1]
    /\ UNCHANGED notBusVars

\* unsubscribe(handler_id): the first handler with that id is deleted
Unsubscribe(id) ==
    /\ \E i \in 1..Len(bus.handlers) : bus.handlers[i].id = id
    /\ LET i == CHOOSE k \in 1..Len(bus.handlers) : bus.handlers[k].id = id
       IN  bus' = [bus EXCEPT !.handlers = RemoveAt(@, i)]
    /\ UNCHANGED notBusVars

\* the target of the weak-reference handler at position i is collected
CollectTarget(i) ==
    /\ i <= Len(bus.handlers)
    /\ bus.handlers[i].weak_ref
    /\ bus.handlers[i].alive
    /\ bus' = [bus EXCEPT !.handlers[i].alive = FALSE]
    /\ UNCHANGED notBusVars

\* _execute_handler(event e, handler h): one execution of the callback,
\* which raises where fails; a failure with retry_count below the handler's
\* max_retries increments the event's retry_count and starts a timer with
\* delay 2 ** retry_count
ExecuteHandler(B, e, h, fails) ==
    LET B1 == [B EXCEPT !.events[e].executions[h.id] = @ + 1] IN
    IF ~fails THEN B1
    ELSE IF B1.events[e].retry_count < h.max_retries
    THEN LET rc == B1.events[e].retry_count + 1 IN
         [B1 EXCEPT !.events[e].retry_count = rc,
                    !.events[e].retries[h.id] = @ + 1,
                    !.timers = @ \cup {[event |-> e, handler |-> h, delay |-> 2^rc,
                                        nth |-> B1.events[e].retries[h.id] + 1]}]
    ELSE B1

\* _process_event: the for loop over the handler list of the event type,
\* which is the list the loop body removes a dead handler from; i is the
\* position the list iterator is at
RECURSIVE ProcessEvent(_, _, _, _)
ProcessEvent(B, e, i, raising) ==
    IF i > Len(B.handlers) THEN B
    ELSE LET h == B.handlers[i] IN
         IF h.weak_ref /\ ~h.alive
         THEN ProcessEvent([B EXCEPT !.handlers = RemoveAt(@, i)], e, i + 1, raising)
         ELSE IF ~h.accepts
         THEN ProcessEvent(B, e, i + 1, raising)
         ELSE ProcessEvent(
                ExecuteHandler([B EXCEPT !.events[e].delivered = Append(@, h.id)],
                               e, h, h.id \in raising),
                e, i + 1, raising)

\* publish: a new event with retry_count 0, handed to _process_event where
\* the type has handlers; raising are the handlers whose callback raises
Publish(raising) ==
    /\ Len(bus.events) < MaxPublishes
    /\ LET e == Len(bus.events) + 1
           event == [retry_count |-> 0, delivered |-> <<>>,
                     executions |-> [h \in HandlerIds |-> 0],
                     retries |-> [h \in HandlerIds |-> 0]]
           B == [bus EXCEPT !.events = Append(@, event)]
       IN  bus' = IF bus.handlers = <<>> THEN B ELSE ProcessEvent(B, e, 1, raising)
    /\ UNCHANGED notBusVars

\* the timer of event e and handler id fires: _execute_handler runs again
\* for its event and handler
TimerFire(e, id, fails) ==
    /\ \E t \in bus.timers : t.event = e /\ t.handler.id = id
    /\ LET t == CHOOSE x \in bus.timers : x.event = e /\ x.handler.id = id
       IN  bus' = ExecuteHandler([bus EXCEPT !.timers = @ \ {t}], e, t.handler, fails)
    /\ UNCHANGED notBusVars

BusNext ==
    \/ \E priority \in Priorities, accepts \in BOOLEAN, max_retries \in RetryLimits,
          weak_ref \in BOOLEAN : Subscribe(priority, accepts, max_retries, weak_ref)
    \/ \E id \in HandlerIds : Unsubscribe(id)
    \/ \E i \in HandlerIds : CollectTarget(i)
    \/ \E raising \in SUBSET HandlerIds : Publish(raising)
    \/ \E e \in 1..MaxPublishes, id \in HandlerIds, fails \in BOOLEAN : TimerFire(e, id, fails)

BusSpec == Init /\ [][BusNext]_vars


\* The accept path and the calls that change the registry, without the steps
\* of the receive threads (which touch neither the registry nor the accept loop)
AcceptNext ==
    \/ \E p \in Processors : AddAudioProcessor(p)
    \/ ServerStart
    \/ AcceptConnection
    \/ RegisterConnection
    \/ \E startOk \in BOOLEAN : StartConnection(startOk)
    \/ AcceptExit
    \/ \E a \in Attempts : ConnStop(a)
    \/ \E d \in Attempts : DisconnectDevice(d)
    \/ ServerStop

AcceptSpec == Init /\ [][AcceptNext]_vars

StorageSpec == Init /\ [][StorageNext]_vars

\* the ids delete_segment is called with: the id start_device_segment
\* returned for a segment, or the id list_segments reports for it
GivenIds ==
    {FullId(<<"run", s>>) : s \in 1..MaxSegments}
      \cup {ShortId(<<"run", s>>) : s \in 1..MaxSegments}

\* the storage manager with readers and deleters of the data directory
CatalogNext ==
    \/ StorageNext
    \/ ListSegmentsCall
    \/ \E segment_id \in GivenIds, removeOk \in BOOLEAN : DeleteSegment(segment_id, removeOk)

CatalogSpec == Init /\ [][CatalogNext]_vars

\* cutoff dates (now - days_to_keep) of the cleanup calls
CutoffDates == {DayLength, ListLimit + 2 * DayLength}

\* a data directory that holds the files of earlier runs, some of which
\* cannot be removed
CleanupInit ==
    /\ StorageInit /\ ServerInit /\ RegistryInit /\ MonitorInit /\ CodecInit
    /\ RestInit
    /\ \E n \in ArchiveSizes, undeletable \in {{}, {1}} :
         catalog = NewCatalog(1..n, undeletable)
    /\ cleanup = NoCleanup

CleanupNext ==
    \/ \E cutoff_date \in CutoffDates : CleanupList(cutoff_date)
    \/ CleanupDelete
    \/ CleanupReturn

CleanupSpec == CleanupInit /\ [][CleanupNext]_vars

\* runs of the ADPCM encoder and decoder over every buffer of PcmBuffers
AdpcmSpecInit ==
    /\ StorageInit /\ ServerInit /\ RegistryInit /\ MonitorInit /\ CatalogInit
    /\ RestInit
    /\ compressor = NewCompressor(TRUE)
    /\ AdpcmInit

AdpcmSpec == AdpcmSpecInit /\ [][AdpcmNext]_vars

\* a compressor whose configured compression_level zlib accepts or rejects
CompressorInit ==
    /\ StorageInit /\ ServerInit /\ RegistryInit /\ MonitorInit /\ CatalogInit
    /\ RestInit
    /\ \E levelOk \in BOOLEAN : compressor = NewCompressor(levelOk)
    /\ adpcm = NewAdpcm(<<>>)

CompressorSpec == CompressorInit /\ [][CompressorNext]_vars

ServerSpec == Init /\ [][ServerNext]_vars

\* The server's own threads keep running: a receive thread that can take a
\* step takes one (recv returns at the latest on its timeout), and so does
\* the accept thread once accept() has returned. Calls from outside
\* (start, stop, disconnect_device, DeviceConnection.stop) and new incoming
\* connections are not forced.
FairServerSpec ==
    /\ ServerSpec
    /\ \A a \in Attempts : WF_vars(ReceiveStep(a))
    /\ WF_vars(RegisterConnection \/ (\E startOk \in BOOLEAN : StartConnection(startOk))
                  \/ AcceptExit)

\* The server together with the storage calls that open and close the segment
\* of a device.
CancelNext ==
    \/ ServerNext
    \/ \E t \in Threads, d \in Devices, openOk \in BOOLEAN : StartDeviceSegment(t, d, openOk)
    \/ \E t \in Threads, d \in Devices : CompleteDeviceSegment(t, d)

CancelSpec == Init /\ [][CancelNext]_vars

Next == StorageNext \/ ServerNext

Spec == Init /\ [][Next]_vars


(* ============================ storage claims ============================ *)
\* the data section of a segment file: what follows the header
DataSection(content) == SubSeq(content, HeaderLen + 1, Len(content))

\* the data-size field of the header of a segment file
DataSizeField(content) == content[HeaderLen][2]

RECURSIVE Concat(_)
Concat(chunks) ==
    IF chunks = <<>> THEN <<>> ELSE Head(chunks) \o Concat(Tail(chunks))

SegmentIds == 1..Len(storage.segments)

\* C1: every device has at most one active segment: a segment file whose
\* writer is still open is the active segment of its device, in both the
\* active-segment map and the writer map, and an active segment's writer is open.
C1_OneActiveSegment ==
    /\ \A s \in SegmentIds :
         storage.writers[s].handle = "open" =>
           /\ storage.active_segments[storage.segments[s].device_id] = s
           /\ storage.segment_writers[storage.segments[s].device_id] = s
    /\ \A d \in Devices :
         storage.active_segments[d] # 0 =>
           /\ storage.segments[storage.active_segments[d]].device_id = d
           /\ storage.segment_writers[d] = storage.active_segments[d]
           /\ storage.writers[storage.active_segments[d]].is_open

\* a device has a closed earlier segment and a newer active one
C1_Witness ==
    \E s1, s2 \in SegmentIds :
      /\ s1 < s2
      /\ storage.segments[s1].device_id = storage.segments[s2].device_id
      /\ storage.active_segments[storage.segments[s2].device_id] = s2
      /\ storage.writers[s1].handle = "closed"
      /\ storage.segments[s1].chunks_count > 0

\* C2: write_audio_chunk on a device without an active segment returns, and
\* afterwards the device has an active segment with chunks_count 1 and the
\* chunk's length as size.
C2_AutoStart ==
    [][\A t \in Threads, d \in Devices, data \in Chunks :
         (WriteAudioChunk(t, d, data) /\ storage.active_segments[d] = 0) =>
           /\ pc'[t] = "idle"
           /\ lock' = 0
           /\ storage'.active_segments[d] # 0
           /\ storage'.segments[storage'.active_segments[d]].chunks_count = 1
           /\ storage'.segments[storage'.active_segments[d]].file_size_bytes
                = Len(data)]_vars

\* C3: a write that brings the active segment to the duration threshold
\* finalizes it within the call, and the next write for the device returns
\* and goes to a fresh segment with another id and file.
C3_Rotation ==
    [][\A t \in Threads, d \in Devices, data \in Chunks :
         /\ (/\ WriteAudioChunk(t, d, data)
             /\ storage.active_segments[d] # 0
             /\ now - storage.segments[storage.active_segments[d]].start_time
                  >= SegmentDuration) =>
              /\ storage'.active_segments[d] = 0
              /\ storage'.writers[storage.active_segments[d]].handle = "closed"
              /\ storage'.segments[storage.active_segments[d]].end_time = now
         /\ (/\ WriteAudioChunk(t, d, data)
             /\ storage.active_segments[d] = 0
             /\ rotated[d]) =>
              /\ pc'[t] = "idle"
              /\ storage'.active_segments[d] > Len(storage.segments)
              /\ Len(written'[storage'.active_segments[d]]) = 1]_vars

\* C4: the data section of every segment file is the concatenation of the
\* chunks written to the segment, in the order of the write_audio_chunk calls.
C4_ChunkOrder ==
    \A s \in SegmentIds :
      DataSection(storage.writers[s].content) = PcmCells(Concat(written[s]))

\* a segment holds two different chunks while the other device has an active
\* segment of its own
C4_Witness ==
    \E s \in SegmentIds :
      /\ Len(written[s]) = 2
      /\ written[s][1] # written[s][2]
      /\ \E d \in Devices :
           d # storage.segments[s].device_id /\ storage.active_segments[d] # 0

C6_ConnectionLimit ==
    /\ Cardinality(server.connections) <= MaxConnections
    /\ server.stats.active_connections <= MaxConnections
    /\ \A a \in Attempts :
         conns[a].state = "rejected" =>
           /\ a \notin server.connections
           /\ conns[a].socket = "closed"
           /\ conns[a].thread = "none"
    /\ server.stats.total_connections =
         Cardinality({a \in Attempts : Registered(a)})

\* a socket was refused while the registry is full
C6_Witness ==
    /\ \E a \in Attempts : conns[a].state = "rejected"
    /\ Cardinality(server.connections) = MaxConnections
    /\ server.stats.total_connections = MaxConnections

\* the edges of the device state machine of the specification
StatusEdges ==
    { <<"disconnected", "connecting">>, <<"connecting", "connected">>,
      <<"connected", "streaming">>, <<"streaming", "error">>,
      <<"streaming", "disconnected">> }

\* C7: every change of a device's status follows an edge of
\* Disconnected -> Connecting -> Connected -> Streaming -> (Error | Disconnected),
\* and the first chunk after connect takes Connected to Streaming.
C7_StatusMachine ==
    [][\A a \in Attempts :
         /\ conns'[a].status # conns[a].status =>
              <<conns[a].status, conns'[a].status>> \in StatusEdges
         /\ (MarkStreaming(a) /\ conns[a].status = "connected") =>
              conns'[a].status = "streaming"]_vars

\* C8: a receive loop that ended on a zero-length read or a timeout leads to
\* the socket being closed and a disconnect notification with the device's
\* cumulative counters being published.
C8_Teardown ==
    \A a \in Attempts :
      (conns[a].end_cause \in {"eof", "timeout"})
        ~> (/\ conns[a].socket = "closed"
            /\ Len(disc[a]) > 0
            /\ disc[a][Len(disc[a])] = DisconnectPayload(conns[a]))

\* C9: once a connection has been stopped, a further stop changes nothing of
\* the connection and publishes no further disconnect notification.
C9_StopIdempotent ==
    [][\A a \in Attempts :
         Len(disc[a]) >= 1 =>
           /\ disc'[a] = disc[a]
           /\ (ConnStop(a) \/ DisconnectDevice(a) \/ ServerStop) =>
                conns'[a] = conns[a]]_vars

\* C10: when disconnect_device(d) or the server's stop returns, the connection
\* of d is not running, its socket is closed and d has no active segment in
\* the storage manager.
C10_Cancellation ==
    [][\A d \in Attempts :
         ((DisconnectDevice(d) \/ ServerStop) /\ d \in server.connections) =>
           /\ ~conns'[d].is_running
           /\ conns'[d].socket = "closed"
           /\ d \in Devices => storage'.active_segments[d] = 0]_vars

\* C11: when the receive loop of a device hits a socket exception, the
\* device's status becomes Error (and the connection is then torn down).
C11_ErrorStatus ==
    [][\A a \in Attempts : RecvError(a) => conns'[a].status = "error"]_vars

\* chunks of connection a that _process_audio_chunk has handed to the processors
ChunksProcessed(a) ==
    conns[a].chunks_received
      - (IF conns[a].thread \in {"bytes_store", "chunks_store"} THEN 1 ELSE 0)

\* C12: while the server is running the accept loop has not ended, whatever
\* failed for one connection or one chunk; and every registered processor has
\* been called with every chunk processed, whichever processors raised.
C12_Isolation ==
    /\ (server.is_running /\ server.server_socket = "open") => accept.pc # "done"
    /\ \A a \in Attempts :
         conns[a].processor_calls
           = ChunksProcessed(a) * Len(server.audio_processors)

\* chunks and bytes of the connections 1..n whose statistics update is complete
RECURSIVE ChunksCounted(_)
ChunksCounted(n) ==
    IF n = 0 THEN 0 ELSE ChunksProcessed(n) + ChunksCounted(n - 1)

RECURSIVE BytesCounted(_)
BytesCounted(n) ==
    IF n = 0 THEN 0
    ELSE conns[n].bytes_received
           - (IF conns[n].thread = "bytes_store" THEN conns[n].chunk_size ELSE 0)
           + BytesCounted(n - 1)

\* C14: no statistics update is lost: the server's total_bytes_received and
\* total_chunks_received equal the total size and the number of the chunks
\* the receive threads have counted so far.
C14_NoLostUpdate ==
    /\ server.stats.total_chunks_received = ChunksCounted(MaxAttempts)
    /\ server.stats.total_bytes_received = BytesCounted(MaxAttempts)

\* C13: every access to the connection registry is made while holding
\* connections_lock: a thread that is reading or changing self.connections
\* (the limit check of the accept loop included) is the holder of the lock.
C13_RegistryLocked ==
    \A t \in RegThreads :
      registry.pc[t] \in {"limit_check", "access"} => registry.lock = t

(* ============================ monitor claims ============================ *)
IsCpuAlert(alert) == alert.metric = "cpu"

\* the ticks that fed the four values to the cpu metric are over
FedDone == TickNumber > Len(FedValues("cpu"))

\* C15: feeding one metric the values below, above, above, below its threshold
\* with alert_cooldown = 0 produces exactly one raised alert, and that alert
\* has been resolved.
C15_AlertLifecycle ==
    (monitor.alert_cooldown = 0 /\ FedDone) =>
      LET cpuAlerts == SelectSeq(monitor.alerts, IsCpuAlert) IN
        /\ Len(cpuAlerts) = 1
        /\ cpuAlerts[1].resolved

C17_ResolveAll ==
    [][\A m \in MetricNames : \A value \in SampleValues(m) :
         (CheckMetric(m, value) /\ ~ShouldAlert(m, value)) =>
           /\ Len(monitor'.alerts) = Len(monitor.alerts)
           /\ \A i \in 1..Len(monitor.alerts) :
                IF monitor.alerts[i].metric = m /\ ~monitor.alerts[i].resolved
                THEN /\ monitor'.alerts[i].resolved
                     /\ monitor'.alerts[i].resolved_timestamp = mclock
                ELSE monitor'.alerts[i] = monitor.alerts[i]]_vars

\* the level the specification gives an alert (1.2 = 6/5, 1.5 = 3/2)
ClaimedLevel(m, value) ==
    CASE m \in {"cpu", "memory", "disk"} /\ 5 * value > 6 * Threshold(m) -> "critical"
      [] m \in {"cpu", "memory", "disk"} /\ 5 * value <= 6 * Threshold(m) -> "error"
      [] m \in {"latency", "buffer"} /\ 2 * value > 3 * Threshold(m) -> "error"
      [] m \in {"latency", "buffer"} /\ 2 * value <= 3 * Threshold(m) -> "warning"
      [] OTHER -> "warning"

\* C18: the level of an alert created for metric m and value v is CRITICAL
\* above 1.2 x threshold and ERROR otherwise for cpu, memory and disk, ERROR
\* above 1.5 x threshold and WARNING otherwise for latency and buffer, and
\* WARNING for every other metric.
C18_AlertLevel ==
    [][\A m \in MetricNames : \A value \in SampleValues(m) :
         (CheckMetric(m, value) /\ Len(monitor'.alerts) = Len(monitor.alerts) + 1) =>
           /\ monitor'.alerts[Len(monitor'.alerts)].metric = m
           /\ monitor'.alerts[Len(monitor'.alerts)].level = ClaimedLevel(m, value)]_vars

\* a critical system alert and an error alert of latency or buffer were created
C18_Witness ==
    \E i, j \in 1..Len(monitor.alerts) :
      /\ monitor.alerts[i].metric \in {"cpu", "memory", "disk"}
      /\ monitor.alerts[i].level = "critical"
      /\ monitor.alerts[j].metric \in {"latency", "buffer"}
      /\ monitor.alerts[j].level = "error"

\* C19: clear_resolved_alerts removes exactly the resolved alerts, keeps the
\* unresolved ones in order and returns the number of alerts it removed; no
\* other step removes an alert or puts another alert in its place.
C19_ClearResolved ==
    [][IF clear_call.pc = "filter" /\ clear_call'.pc = "idle"
       THEN /\ monitor'.alerts = SelectSeq(monitor.alerts, NotResolved)
            /\ clear_call.resolved_count
                 = Len(monitor.alerts) - Len(monitor'.alerts)
       ELSE /\ Len(monitor'.alerts) >= Len(monitor.alerts)
            /\ \A i \in 1..Len(monitor.alerts) :
                 /\ monitor'.alerts[i].metric = monitor.alerts[i].metric
                 /\ monitor'.alerts[i].timestamp = monitor.alerts[i].timestamp]_vars

\* the phases of a complete tick, in order
FullTick == <<"system", "audio">> \o Metrics \o <<"callbacks">>

\* C20: every tick whose sampling succeeded has, when it goes to sleep,
\* evaluated the six metrics in order after the two samplings and then
\* called every registered callback.
C20_TickOrder ==
    [][(MonitorSleep /\ Len(mloop.phases) >= 2) =>
         /\ mloop.phases = FullTick
         /\ mloop.called = monitor.performance_callbacks]_vars

\* C21: an exception raised during a tick does not stop the monitor loop: the
\* step that follows it is the sleep of one interval and the return to the
\* loop test, a loop test made while monitoring is active starts the next
\* tick, and the loop ends only at a loop test that finds monitoring_active
\* cleared.
C21_LoopSurvives ==
    [][/\ (mloop.pc = "except" /\ mloop' # mloop) =>
            (mloop'.pc = "test" /\ mclock' = mclock + MetricsInterval)
       /\ (mloop.pc = "test" /\ mloop' # mloop /\ monitor.monitoring_active) =>
            mloop'.pc = "system"
       /\ (mloop.pc # "done" /\ mloop'.pc = "done") =>
            (mloop.pc = "test" /\ ~monitor.monitoring_active)]_vars

\* a tick is running after an earlier tick ended in an exception (every alert
\* in the list was raised on a tick that the failing emit ended)
C21_Witness ==
    /\ monitor.monitoring_active
    /\ mloop.pc = "audio"
    /\ Len(monitor.alerts) >= 1
    /\ monitor.alerts[1].timestamp < mclock

\* C22: once stop_monitoring has returned (and until monitoring is started
\* again), no sampling, alert evaluation or callback round of the monitor loop
\* is in progress.
C22_StopWaits ==
    stop_call = "returned" =>
      mloop.pc \notin {"system", "audio", "check", "callbacks"}

(* ========================= data directory claims ======================== *)
\* segment s of this run is finalized: it is no device's active segment, its
\* file is closed and the header holds the number of data bytes written
Finalized(S, s) ==
    /\ \A d \in Devices : S.active_segments[d] # s
    /\ S.writers[s].handle = "closed"
    /\ S.writers[s].content[HeaderLen] = <<"data_size", S.writers[s].bytes_written>>

\* C23: a list_segments call that runs concurrently with the start, write
\* and complete calls of other threads returns only finalized segments.
C23_ListFinalized ==
    [][ListSegmentsCall =>
         \A i \in 1..Len(catalog'.listed) :
           Finalized(storage, catalog'.listed[i].segment_id.prefix[2])]_vars

\* C24: when cleanup_old_segments has returned, no file whose start time
\* precedes the cutoff date is left in the data directory except those whose
\* removal failed, and the number returned is the number of files removed.
C24_Cleanup ==
    cleanup.result >= 0 =>
      /\ \A f \in DiskFiles(storage, catalog) :
           f.start_time < cleanup.cutoff_date =>
             f.segment_id.prefix[2] \in catalog.undeletable
      /\ cleanup.result
           = Cardinality(cleanup.before \ DiskFiles(storage, catalog))

\* C25: a delete_segment that removes the file of a device's active segment
\* leaves the device without an entry in active_segments and segment_writers.
C25_DeleteActive ==
    [][\A d \in Devices :
         (/\ storage.active_segments[d] # 0
          /\ storage.active_segments[d] \notin catalog.removed_run
          /\ storage.active_segments[d] \in catalog'.removed_run) =>
           /\ storage'.active_segments[d] = 0
           /\ storage'.segment_writers[d] = 0]_vars

(* =========================== compression claims ======================== *)
\* C26: decompress_audio applied to the output of compress_audio with the
\* same lossless codec (NONE, ZLIB, GZIP) and the shape and dtype of the
\* buffer returns the buffer, element for element and byte for byte.
C26_LosslessRoundTrip ==
    (/\ compressor.last.op = "decompress"
     /\ compressor.last.compressed_as \in LosslessTypes
     /\ compressor.last.compression_type = compressor.last.compressed_as
     /\ compressor.last.shape = compressor.last.x.shape
     /\ compressor.last.dtype = compressor.last.x.dtype) =>
      /\ ~compressor.last.result.raised
      /\ compressor.last.result.value = compressor.last.x
      /\ ToBytes(compressor.last.result.value.values, compressor.last.dtype)
           = ToBytes(compressor.last.x.values, compressor.last.x.dtype)

\* a two-element int16 buffer went through zlib and came back
C26_Witness ==
    /\ compressor.last.op = "decompress"
    /\ compressor.last.compressed_as = "zlib"
    /\ compressor.last.compression_type = "zlib"
    /\ compressor.last.x = Array("int16", <<2>>, <<258, -1>>)
    /\ compressor.last.shape = <<2>>
    /\ compressor.last.dtype = "int16"
    /\ ~compressor.last.result.raised

\* C27: the decoder run on the encoder's output goes through the same
\* predictor and step sequence as the encoder (decoded sample i is the
\* encoder's predictor after sample i); every code lies in [-8, 7] and the
\* step stays in [1, 32768].
C27_AdpcmMirror ==
    /\ \A i \in 1..Len(adpcm.dec_trace) : adpcm.dec_trace[i] = adpcm.enc_trace[i]
    /\ \A i \in 1..Len(adpcm.dec.decoded) : adpcm.dec.decoded[i] = adpcm.enc_trace[i][1]
    /\ \A i \in 1..Len(adpcm.enc.encoded) :
         SignedNibble(adpcm.enc.encoded[i]) \in CodeMin..CodeMax
    /\ adpcm.enc.step \in 1..StepMax
    /\ adpcm.dec.step \in 1..StepMax

\* C28: compress_audio and decompress_audio called with a compression_type
\* that is not a CompressionType raise, and the call leaves metrics_history
\* as it was.
C28_UnsupportedCodec ==
    [][\A c \in CodecInputs \ CompressionTypes :
         (\/ \E x \in Buffers, lossy \in LossyScores, elapsed \in Elapsed :
               CompressAudio(x, c, lossy, elapsed)
          \/ \E shape \in Shapes, dtype \in Dtypes, elapsed \in Elapsed :
               DecompressAudio(c, shape, dtype, elapsed)) =>
           /\ compressor'.last.result.raised
           /\ compressor'.metrics_history = compressor.metrics_history]_vars

\* decompress_audio was called with an unsupported type on a compressor
\* that has records in its history
C28_Witness ==
    /\ compressor.last.op = "decompress"
    /\ compressor.last.compression_type \notin CompressionTypes
    /\ compressor.last.result.raised
    /\ compressor.metrics_history # <<>>

\* the trials of a get_optimal_compression call that succeeded with a
\* quality score at or above the target
Qualifiers(call) ==
    {i \in 1..Len(call.trials) :
       /\ ~call.trials[i].raised
       /\ call.trials[i].value.quality_score >= call.target_quality}

\* C29: get_optimal_compression returns a candidate (ZLIB, GZIP, ADPCM) of
\* greatest compression ratio among those whose trial succeeded with a
\* quality score at or above the target, ZLIB when there is none, and never
\* NONE.
C29_OptimalCompression ==
    compressor.last.op = "optimal" =>
      LET call == compressor.last
          result == call.result.value
      IN /\ result # "none"
         /\ \E i \in 1..Len(Candidates) : Candidates[i] = result
         /\ IF Qualifiers(call) = {} THEN result = "zlib"
            ELSE \E i \in Qualifiers(call) :
                   /\ Candidates[i] = result
                   /\ \A j \in Qualifiers(call) :
                        LET rj == call.trials[j].value.compression_ratio
                            ri == call.trials[i].value.compression_ratio
                        IN rj[1] * ri[2] <= ri[1] * rj[2]

\* ADPCM was chosen over a ZLIB trial that met the target with a smaller ratio
C29_Witness ==
    /\ compressor.last.op = "optimal"
    /\ compressor.last.result.value = "adpcm"
    /\ 1 \in Qualifiers(compressor.last)
    /\ compressor.last.trials[3].value.compression_ratio[1]
         * compressor.last.trials[1].value.compression_ratio[2]
       > compressor.last.trials[1].value.compression_ratio[1]
         * compressor.last.trials[3].value.compression_ratio[2]

\* C30: every call leaves the records already in metrics_history as they
\* are, and a compress_audio call that returns adds exactly one record.
C30_AppendOnly ==
    [][/\ Len(compressor'.metrics_history) >= Len(compressor.metrics_history)
       /\ \A i \in 1..Len(compressor.metrics_history) :
            compressor'.metrics_history[i] = compressor.metrics_history[i]
       /\ (/\ compressor'.last.op = "compress"
           /\ compressor' # compressor
           /\ ~compressor'.last.result.raised) =>
             Len(compressor'.metrics_history) = Len(compressor.metrics_history) + 1]_vars

(* ============================ further claims =========================== *)
\* C35: the alert list never holds two unresolved alerts for one metric.
C35_OneUnresolved ==
    \A m \in MetricNames : Cardinality(Unresolved(monitor.alerts, m)) <= 1

\* C36: at most one loop thread is inside the monitoring loop at any time,
\* and a start_monitoring call made while monitoring is active creates no
\* thread.
C36_OneLoop ==
    [][/\ Cardinality(Looping(mthreads')) <= 1
       /\ mthreads.monitoring_active =>
            Len(mthreads'.threads) = Len(mthreads.threads)]_vars

\* C37: once stop has returned for a connection (its device.disconnected
\* event is published), the device's status is DISCONNECTED and stays so,
\* and no further chunk of the device is handed to the processors. (Stated
\* for a connection whose receive thread was started before the stop: from
\* a state where the status is DISCONNECTED, no step changes the status or
\* calls the processors.)
C37_StopFinal ==
    [][\A a \in Attempts :
         (/\ disc[a] # <<>>
          /\ conns[a].thread # "none"
          /\ conns[a].status = "disconnected") =>
           /\ conns'[a].status = "disconnected"
           /\ conns'[a].processor_calls = conns[a].processor_calls]_vars

\* C39: every file a cleanup_old_segments call removes started before the
\* cutoff date and is one of the files the call selected as old.
C39_CleanupOnlyOld ==
    [][cleanup.pc = "loop" =>
         \A f \in DiskFiles(storage, catalog) \ DiskFiles(storage', catalog') :
           /\ f.start_time < cleanup.cutoff_date
           /\ \E i \in 1..Len(cleanup.old_segments) : cleanup.old_segments[i] = f]_vars

\* C38: in every state, delete_segment called with the id that
\* start_device_segment returned for a segment that is completed and whose
\* file exists and can be removed, returns true and removes the file.
C38_DeleteById ==
    \A s \in 1..Len(storage.segments) :
      (Finalized(storage, s) /\ s \notin catalog.removed_run) =>
        LET r == DeleteSegmentBody(storage, catalog, FullId(<<"run", s>>), TRUE)
        IN /\ r.result
           /\ s \in r.catalog.removed_run
\* the chunks _chunk_to_numpy can convert: a format it has a branch for and
\* a length that is a whole number of samples
Convertible(chunk) ==
    \/ chunk.format = "pcm_16bit" /\ Len(chunk.data) % 2 = 0
    \/ chunk.format = "pcm_24bit" /\ Len(chunk.data) % 3 = 0

IsPrefix(s, t) == Len(s) <= Len(t) /\ \A i \in 1..Len(s) : s[i] = t[i]

\* the filters of F that do not raise when they are applied
NotRaising(F) == SelectSeq(F, LAMBDA f : ~(f.enabled /\ f.kind = "raises"))

\* the result of a call that was cut short
ShortCircuited(r) == r.stages_completed = <<>> /\ ~r.has_data /\ r.errors # <<>>

Signed24(b0, b1, b2) ==
    LET u == b0 + 256 * b1 + 65536 * b2 IN IF u >= 8388608 THEN u - 16777216 ELSE u

\* C32: for every 24-bit PCM chunk that is converted, each sample of the
\* converted buffer is the 24-bit two's-complement value of its 3
\* little-endian bytes (over 2^23), with no bits lost
C32_Pcm24Exact ==
    LET r == processor.last
        d == r.original_chunk.data
    IN  (processor.calls > 0 /\ r.original_chunk.format = "pcm_24bit"
           /\ r.stages_completed # <<>>) =>
          /\ Len(r.audio_data) = Len(d) \div 3
          /\ \A i \in 1..Len(r.audio_data) :
                r.audio_data[i] = Signed24(d[3 * i - 2], d[3 * i - 1], d[3 * i])

\* C40: every call of process_chunk counts its chunk exactly once: in
\* chunks_processed when all five stages completed without an error, or in
\* errors when the result carries an error string
C40_CountedOnce ==
    [][processor'.calls # processor.calls =>
         LET r == processor'.last
             s == processor.stats
             t == processor'.stats
         IN  \/ /\ r.stages_completed = Stages /\ r.errors = <<>>
                /\ t.chunks_processed = s.chunks_processed + 1
                /\ t.errors = s.errors
             \/ /\ r.errors # <<>>
                /\ t.errors = s.errors + 1
                /\ t.chunks_processed = s.chunks_processed]_vars

\* C33: every pending retry timer of a handler is the k-th retry of that
\* handler for its event with a delay of 2^k seconds, and it is scheduled
\* only while the handler has been executed at most max_retries times for
\* the event, so that a handler is executed at most 1 + max_retries times
C33_BoundedBackoff ==
    \A t \in bus.timers :
        /\ t.delay = 2^(t.nth)
        /\ bus.events[t.event].executions[t.handler.id] <= t.handler.max_retries

\* the ids of the handlers of H a publish has to call, in the order of H
Deliverable(H) ==
    LET L == SelectSeq(H, LAMBDA h : (h.weak_ref => h.alive) /\ h.accepts)
    IN  [i \in 1..Len(L) |-> L[i].id]

\* C34: one publish calls every subscribed handler whose filter accepts the
\* event exactly once, in descending handler priority, also when another
\* handler is a weak-reference handler whose target has been collected:
\* that handler alone is removed from the list and skipped
C34_DeliveredOnce ==
    [][Len(bus'.events) > Len(bus.events) =>
         LET e == Len(bus'.events) IN
         /\ bus'.events[e].delivered = Deliverable(bus.handlers)
         /\ \A h \in HandlerIds :
               bus'.events[e].executions[h] =
                 IF \E i \in 1..Len(bus'.events[e].delivered) :
                       bus'.events[e].delivered[i] = h THEN 1 ELSE 0
         /\ \A i, j \in 1..Len(bus.handlers) :
               i < j => bus.handlers[i].priority >= bus.handlers[j].priority
         /\ bus'.handlers = SelectSeq(bus.handlers, LAMBDA h : h.weak_ref => h.alive)]_vars

============================================================================
